---- MODULE Spec2Model ----
(***************************************************************************)
(* Dead-man's-switch session controller of the Afkty backend (v2):         *)
(* the WebSocket router (websocketV2), the per-client heartbeat watchdog,  *)
(* the session state machine (sessionService), the life-or-death alert     *)
(* loop (alertLoopService) and the per-(client, class) rate limiter.       *)
(*                                                                         *)
(* A socket is identified with the client id the router assigns to it on   *)
(* accept (a fresh uuid per connection).  Time is Date.now() relative to   *)
(* server start, in milliseconds, advanced by the Tick action.  A message  *)
(* handler is one action; the timer callback (triggerDeadManSwitch ->      *)
(* handleTimeout -> startAlertLoop) is split at its awaits, because other  *)
(* handlers and other timer callbacks run between them.                    *)
(***************************************************************************)
EXTENDS Integers, Naturals, Sequences, FiniteSets, TLC

\* ------------------------------------------------------------------ bounds
MaxSockets == 2
MaxFrames == 3
MaxOverlap == 2
MaxSends == 102
MaxAttempts == 3
MaxTicks == 4
TickMs == 15000
MaxConnects == 2
MaxAlerts == 2
RateTicks == 3
RateTickMs == 30000

MaxDevices == 2
MaxJobs == 2
MaxFailed == 3
MaxNotifications == 3

\* ------------------------------------------------------- program constants
heartbeatTimeout == 30000
reconnectGracePeriod == 5000

RATE_LIMITS ==
  [ status |-> [max |-> 6,  windowMs |-> 60000],
    log    |-> [max |-> 30, windowMs |-> 60000],
    notify |-> [max |-> 5,  windowMs |-> 60000],
    alert  |-> [max |-> 5,  windowMs |-> 60000] ]

RatedClasses == {"status", "log", "notify", "alert"}

\* ------------------------------------------------------------ the universe
\* the SDK's bound on its offline queue: the literal 50 of afkty.lua and
\* _config.maxQueueSize of the v3 SDK
legacyQueueSize == 50
maxQueueSize == 100

Sockets == 1..MaxSockets
\* setInterval does not wait for a callback to finish: the callbacks of one
\* alert that can be in flight together
TickSlots == 1..MaxOverlap
Users == {"A", "B"}
Hubs == {"H1", "H2"}
DeviceIds == 1..MaxDevices
Jobs == 1..MaxJobs
AlertIds == 1..MaxAlerts
Tokens == {"t1", "t2"}
Platforms == {"web", "android"}
MaxTime == MaxTicks * TickMs
RateMaxTime == RateTicks * RateTickMs

\* hub keys, user tokens and bearer tokens a peer may present
HubKeyInputs == Hubs \cup {"missing", "unknown"}
UserTokenInputs == Users \cup {"missing", "unknown"}
\* HH:MM settings a user may store, as <<hour, minute>>
TimeSamples == {<<0, 0>>, <<4, 30>>, <<7, 0>>, <<9, 0>>, <<23, 0>>, <<23, 59>>}
\* minutes of the day around those settings
ClockSamples == {0, 1, 269, 270, 271, 419, 420, 539, 540, 1379, 1380, 1438, 1439}
\* minute-of-day samples of the server's local clock: 04:30 and 09:00
MinuteSamples == {270, 540}
\* the frame types of the protocol
FrameTypes ==
  {"connect", "heartbeat", "status", "log", "notify", "alert", "disconnect",
   "authenticate", "register_device", "command"}

VARIABLES
  running,          \* the process is up (FALSE after shutdown)
  now,              \* Date.now()
  horizon,          \* the last instant this run follows the clock to
  wsState,          \* socket -> "unused" | "open" | "closing" | "closed"
  clients,          \* this.clients: socket -> ClientInfo
  sessions,         \* prisma.session rows, keyed by wsClientId (unique)
  heartbeatTimers,  \* this.heartbeatTimers: clientId -> timer entry
  task,             \* clientId -> position of a running timer callback
  users,            \* prisma.user rows
  hubs,             \* prisma.hub rows
  activeAlerts,     \* prisma.activeAlert rows, in creation order
  rateLimits,       \* this.rateLimits: <<clientId, class>> -> record
  connects,         \* clientId -> successful connect frames on this socket
  timeoutPushes,    \* clientId -> critical pushes sent by handleTimeout
  timeoutLogs,      \* clientId -> error-level SessionLogs written by handleTimeout
  lastBeat,         \* clientId -> time a frame started or reset the timer now scheduled or running
  armedBy,          \* clientId -> "start" | "reset": what scheduled the current timer
  closedAt,         \* socket -> time a live producer's socket closed abruptly, while in grace
  graceReconnect,   \* socket -> the same script reconnected within the grace period
  focus,            \* the <<clientId, class>> pairs whose rated frames this run sends
  rateSeen,         \* <<clientId, class>> -> the fixed window as seen from outside
  regen,            \* position of a running regenerateUserToken call
  devices,          \* prisma.device rows, by id
  jobs,             \* pushes in flight: position of each per-device send
  loops,            \* alert id -> the interval callbacks in flight (one per slot)
  boot,             \* position of start() and the sessions found ACTIVE at process start
  fanout,           \* frames a producer sent, handlers at their await, frames written per socket
  calls,            \* connect handlers, suspendHub and shutdown at their awaits
  legacy,           \* the connection-key router: keys in Redis and its sockets
  sdk,              \* the producer SDK: _state and _config of one script
  observe,          \* what this run records: handlers (evt, out), "watchdog" (armedBy)
  evt,              \* the handler that ran last and its input
  out               \* frames and pushes the last handler emitted

vars == << running, now, horizon, wsState, clients, sessions, heartbeatTimers,
           task,
           users, hubs, activeAlerts, rateLimits, connects, timeoutPushes,
           timeoutLogs,
           lastBeat, armedBy, closedAt, graceReconnect, focus, rateSeen,
           regen, devices, jobs, loops, boot, fanout, calls,
           legacy, sdk, observe, evt, out >>

\* ------------------------------------------------------------ record shapes
NoClient ==
  [type |-> "null", userId |-> "null", hubId |-> "null", sessionId |-> 0,
   authenticated |-> FALSE]

NoSession ==
  [id |-> 0, userId |-> "null", hubId |-> "null", status |-> "NONE",
   disconnectReason |-> "null", disconnectMessage |-> "null",
   alertSent |-> FALSE, currentStatus |-> "null", lastHeartbeatAt |-> 0]

NoTimer == [state |-> "none", deadline |-> 0, sessionId |-> 0, userId |-> "null"]

IdleTask == [pc |-> "idle", sid |-> 0, userId |-> "null", lod |-> FALSE]

NoRecord == [count |-> 0, resetTime |-> -1]

NoWindow == [start |-> -1, n |-> 0]

\* a Device row; state: "none" (id not yet given out) | "live" | "gone" (deleted)
NoDevice ==
  [state |-> "none", fcmToken |-> "null", userId |-> "null", platform |-> "null",
   isActive |-> FALSE, failedAttempts |-> 0]

GoneDevice == [NoDevice EXCEPT !.state = "gone"]

NoJob == [pc |-> "idle", userId |-> "null", dev |-> 0, fcmToken |-> "null", read |-> 0]

NoLoop == [pc |-> "idle", read |-> 0]

Booted == [pc |-> "listening", stale |-> {}, old |-> {}]

NoFanout == [sent |-> << >>, pending |-> {}, inbox |-> [s \in Sockets |-> << >>]]

NoConnect == [pc |-> "idle", hubId |-> "null", userId |-> "null"]
NoCalls == [connect |-> [s \in Sockets |-> NoConnect],
            suspend |-> [pc |-> "idle", hubId |-> "null"],
            shutdown |-> [pc |-> "idle", found |-> {}, at |-> 0]]

ConnectionKeys == {"K1", "K2"}

\* a socket of the connection-key router: the client's type and userId, the
\* key its connect handler read, and where that handler is
NoLegacyClient == [ws |-> "unused", type |-> "null", userId |-> "null",
                   key |-> "null", pc |-> "idle", monitored |-> FALSE,
                   authenticated |-> FALSE]
\* the legacy dead-man service for one session id: conn is the session's
\* active-connection hash in Redis, timer and grace the two setTimeout
\* handles, run the position of the handleTimeout call each of them makes,
\* alerts the sendCriticalAlert calls made for the session
Callers == {"timer", "grace"}
NoWatch == [conn |-> FALSE, timer |-> "none", grace |-> "none",
            run |-> [k \in Callers |-> "idle"], alerts |-> 0]

NoLegacy == [keys |-> [k \in ConnectionKeys |-> "null"], issued |-> {},
             clients |-> [s \in Sockets |-> NoLegacyClient],
             devices |-> {},
             deadman |-> [s \in Sockets |-> NoWatch]]

\* the SDK before Init: version "none"; stopped records that Disconnect()
\* was called, appended counts the messages queued so far
NoSdk == [version |-> "none", ws |-> FALSE, connected |-> FALSE,
          authenticated |-> FALSE, reconnectAttempts |-> 0,
          autoReconnect |-> TRUE, maxReconnectAttempts |-> 0,
          isShuttingDown |-> FALSE, timers |-> 0, reported |-> FALSE,
          stopped |-> FALSE, messageQueue |-> << >>, appended |-> 0]

NoRegen == [pc |-> "idle", userId |-> "null", was |-> {}]

NoEvt == [op |-> "none", sock |-> 0, arg |-> "null", sid |-> 0, result |-> "null"]

Frame(to, type, code) == [to |-> to, user |-> "null", type |-> type, code |-> code]
Push(user, type) == [to |-> 0, user |-> user, type |-> type, code |-> "null"]

Event(op, sock, arg, sid, result) ==
  IF op \in observe
  THEN [op |-> op, sock |-> sock, arg |-> arg, sid |-> sid, result |-> result]
  ELSE NoEvt

Emit(op, frames) == IF op \in observe THEN frames ELSE {}

\* armedBy is recorded by the runs that observe the watchdog
ArmedBy(kind, c) ==
  IF "watchdog" \in observe THEN [armedBy EXCEPT ![c] = kind] ELSE armedBy

\* ------------------------------------------------------------------ helpers
\* send: a frame is written only while the socket is OPEN
send(ws, type, code) ==
  IF wsState[ws] = "open" THEN {Frame(ws, type, code)} ELSE {}

sendError(ws, code) == send(ws, "error", code)

\* the socket is in this.clients
InMap(s) == wsState[s] \in {"open", "closing"}

\* notifyMobileApps: every authenticated consumer socket of the user
notifyMobileApps(cl, userId, type) ==
  UNION { IF cl[s].type = "mobile" /\ cl[s].userId = userId /\ cl[s].authenticated
             /\ InMap(s)
          THEN send(s, type, "null") ELSE {} : s \in Sockets }

\* the socket delivers inbound frames: the peer stops sending once either
\* side has started the closing handshake
Receiving(s) == running /\ wsState[s] = "open"


\* ws.close(): an OPEN socket starts closing; its close event follows
wsClose(st, s) == IF st[s] = "open" THEN [st EXCEPT ![s] = "closing"] ELSE st

\* a check that looks at the client's type only
requireAuthTypeOnly(client, expectedType) ==
  IF client.type # expectedType /\ client.authenticated THEN "INVALID_MESSAGE"
  ELSE "null"

\* requireAuth: "null" when the frame may proceed, else the error code
requireAuth(client, expectedType) ==
  IF ~client.authenticated THEN "NOT_AUTHENTICATED"
  ELSE IF client.type # expectedType THEN "INVALID_MESSAGE"
  ELSE "null"

\* ---------------------------------------------------------------- watchdog
startHeartbeatMonitor(timers, clientId, sessionId, userId, t) ==
  [timers EXCEPT ![clientId] =
     [state |-> "pending", deadline |-> t + heartbeatTimeout,
      sessionId |-> sessionId, userId |-> userId]]

stopHeartbeatMonitor(timers, clientId) ==
  [timers EXCEPT ![clientId] = NoTimer]

\* a reset that leaves the running timer in place
resetKeepsDeadline(timers, clientId, t) == timers

resetHeartbeatMonitor(timers, clientId, t) ==
  IF timers[clientId].state # "none"
  THEN startHeartbeatMonitor(timers, clientId, timers[clientId].sessionId,
                             timers[clientId].userId, t)
  ELSE timers

\* ------------------------------------------------------------ credentials
\* a validation that does not look at the hub's status
validateApiKeyAnyStatus(hubKey) ==
  IF hubKey \notin Hubs THEN "null" ELSE "ok"

\* hubService.validateApiKey: "null" | "error" | "ok"
validateApiKey(hubKey) ==
  IF hubKey \notin Hubs THEN "null"
  ELSE IF hubs[hubKey].status # "APPROVED" THEN "error"
  ELSE "ok"

\* userService.validateUserToken: "null" | "error" | "ok"
validateUserToken(userToken) ==
  IF userToken \notin Users THEN "null"
  ELSE IF users[userToken].status # "ACTIVE" THEN "error"
  ELSE "ok"

\* ----------------------------------------------------------- session store
SessionRows(ss) == {c \in Sockets : ss[c].status # "NONE"}

createSession(ss, userId, hubId, wsClientId, t) ==
  IF ss[wsClientId].status # "NONE"
  THEN [ss EXCEPT ![wsClientId] =
          [@ EXCEPT !.userId = userId, !.hubId = hubId, !.status = "ACTIVE",
                    !.lastHeartbeatAt = t,
                    !.disconnectReason = "null", !.disconnectMessage = "null",
                    !.alertSent = FALSE]]
  ELSE [ss EXCEPT ![wsClientId] =
          [id |-> Cardinality(SessionRows(ss)) + 1, userId |-> userId,
           hubId |-> hubId, status |-> "ACTIVE", disconnectReason |-> "null",
           disconnectMessage |-> "null", alertSent |-> FALSE,
           currentStatus |-> "null", lastHeartbeatAt |-> t]]

updateHeartbeat(ss, wsClientId, t) ==
  [ss EXCEPT ![wsClientId].lastHeartbeatAt = t]

updateStatus(ss, wsClientId, statusText) ==
  [ss EXCEPT ![wsClientId].currentStatus = statusText]

disconnectSession(ss, wsClientId, reason, message) ==
  IF ss[wsClientId].status = "NONE" THEN ss
  ELSE [ss EXCEPT ![wsClientId] =
          [@ EXCEPT !.status = "DISCONNECTED", !.disconnectReason = reason,
                    !.disconnectMessage = message]]

disconnectSessionById(ss, sessionId, reason, message) ==
  [c \in Sockets |->
     IF ss[c].status # "NONE" /\ ss[c].id = sessionId
     THEN [ss[c] EXCEPT !.status = "DISCONNECTED", !.disconnectReason = reason,
                        !.disconnectMessage = message]
     ELSE ss[c]]

\* the session row handleTimeout writes (where: {id: session.id})
\* a timeout written as an ordinary disconnect
markTimeoutAsDisconnected(ss, sessionId, message, alertSent) ==
  [c \in Sockets |->
     IF ss[c].id = sessionId /\ ss[c].status # "NONE"
     THEN [ss[c] EXCEPT !.status = "DISCONNECTED", !.disconnectReason = "TIMEOUT",
                        !.disconnectMessage = message, !.alertSent = alertSent]
     ELSE ss[c]]

markTimeout(ss, sessionId, message, alertSent) ==
  [c \in Sockets |->
     IF ss[c].status # "NONE" /\ ss[c].id = sessionId
     THEN [ss[c] EXCEPT !.status = "TIMEOUT", !.disconnectReason = "TIMEOUT",
                        !.disconnectMessage = message, !.alertSent = alertSent]
     ELSE ss[c]]

\* userService.regenerateUserToken: updateMany on the user's ACTIVE sessions
regenerateUserToken(ss, userId) ==
  [c \in Sockets |->
     IF ss[c].userId = userId /\ ss[c].status = "ACTIVE"
     THEN [ss[c] EXCEPT !.status = "DISCONNECTED",
                        !.disconnectReason = "TOKEN_REVOKED",
                        !.disconnectMessage = "User token regenerated"]
     ELSE ss[c]]

\* hubService.suspendHub: updateMany on the hub's ACTIVE sessions
suspendHub(ss, hubId) ==
  [c \in Sockets |->
     IF ss[c].hubId = hubId /\ ss[c].status = "ACTIVE"
     THEN [ss[c] EXCEPT !.status = "DISCONNECTED", !.disconnectReason = "ERROR",
                        !.disconnectMessage = "Hub suspended"]
     ELSE ss[c]]

\* ------------------------------------------------------------- quiet hours
\* a window that also covers its end minute
isQuietHoursEndInclusive(user, currentMinutes) ==
  IF ~user.quietHoursEnabled THEN FALSE
  ELSE LET startMinutes == user.quietHoursStart[1] * 60 + user.quietHoursStart[2]
           endMinutes == user.quietHoursEnd[1] * 60 + user.quietHoursEnd[2]
       IN IF startMinutes > endMinutes
          THEN currentMinutes >= startMinutes \/ currentMinutes <= endMinutes
          ELSE currentMinutes >= startMinutes /\ currentMinutes <= endMinutes

\* isQuietHours: the HH:MM strings are kept as <<hour, minute>> pairs
isQuietHours(user, currentMinutes) ==
  IF ~user.quietHoursEnabled THEN FALSE
  ELSE LET startMinutes == user.quietHoursStart[1] * 60 + user.quietHoursStart[2]
           endMinutes == user.quietHoursEnd[1] * 60 + user.quietHoursEnd[2]
       IN IF startMinutes > endMinutes
          THEN currentMinutes >= startMinutes \/ currentMinutes < endMinutes
          ELSE currentMinutes >= startMinutes /\ currentMinutes < endMinutes

\* ------------------------------------------------------------ rate limiter
\* a verdict that lets one frame more through
rateAllowedOffByOne(limits, clientId, type, t) ==
  LET record == limits[<<clientId, type>>]
  IN IF record = NoRecord \/ t > record.resetTime THEN TRUE
     ELSE record.count <= RATE_LIMITS[type].max

\* checkRateLimit, its verdict
rateAllowed(limits, clientId, type, t) ==
  LET record == limits[<<clientId, type>>]
  IN IF record = NoRecord \/ t > record.resetTime THEN TRUE
     ELSE record.count < RATE_LIMITS[type].max

\* checkRateLimit, its effect on this.rateLimits
checkRateLimit(limits, clientId, type, t) ==
  LET record == limits[<<clientId, type>>]
  IN IF record = NoRecord \/ t > record.resetTime
     THEN [limits EXCEPT ![<<clientId, type>>] =
             [count |-> 1, resetTime |-> t + RATE_LIMITS[type].windowMs]]
     ELSE IF record.count >= RATE_LIMITS[type].max THEN limits
     ELSE [limits EXCEPT ![<<clientId, type>>].count = @ + 1]

\* -------------------------------------------------------------------- Init
InitUsers ==
  [u \in Users |->
     [status |-> "ACTIVE",
      lifeOrDeathMode |-> (u = "A"),
      quietHoursEnabled |-> (u = "A"),
      quietHoursStart |-> <<23, 0>>,
      quietHoursEnd |-> <<7, 0>>]]

InitHubs ==
  [h \in Hubs |->
     [status |-> IF h = "H1" THEN "APPROVED" ELSE "PENDING",
      totalConnections |-> 0]]

\* the process's memory at start, and the tables the sessions do not touch
InitProcess ==
  /\ now = 0
  /\ wsState = [s \in Sockets |-> "unused"]
  /\ clients = [s \in Sockets |-> NoClient]
  /\ heartbeatTimers = [s \in Sockets |-> NoTimer]
  /\ task = [s \in Sockets |-> IdleTask]
  /\ rateLimits = [k \in Sockets \X RatedClasses |-> NoRecord]
  /\ connects = [s \in Sockets |-> 0]
  /\ timeoutPushes = [s \in Sockets |-> 0]
  /\ timeoutLogs = [s \in Sockets |-> 0]
  /\ lastBeat = [s \in Sockets |-> -1]
  /\ armedBy = [s \in Sockets |-> "none"]
  /\ closedAt = [s \in Sockets |-> -1]
  /\ graceReconnect = [s \in Sockets |-> FALSE]
  /\ rateSeen = [k \in Sockets \X RatedClasses |-> NoWindow]
  /\ regen = NoRegen
  /\ fanout = NoFanout
  /\ calls = NoCalls
  /\ legacy = NoLegacy
  /\ sdk = NoSdk
  /\ devices = [d \in DeviceIds |-> NoDevice]
  /\ jobs = [j \in Jobs |-> NoJob]
  /\ loops = [i \in AlertIds |-> [a \in TickSlots |-> NoLoop]]
  /\ evt = NoEvt
  /\ out = {}

\* the process memory of a fresh server and the user table
InitMemory == InitProcess /\ users = InitUsers

\* a server that is up on an empty session table
InitState ==
  /\ InitMemory
  /\ running = TRUE
  /\ boot = Booted
  /\ activeAlerts = << >>
  /\ sessions = [s \in Sockets |-> NoSession]
  /\ hubs = InitHubs

Init ==
  InitState /\ horizon = MaxTime /\ focus = {} /\ observe = {"watchdog"}

\* -------------------------------------------------------- socket lifecycle
\* wss.on('connection'): a fresh client id, unauthenticated metadata, welcome
Accept(s) ==
  /\ running
  /\ wsState[s] = "unused"
  /\ \A r \in Sockets : r < s => wsState[r] # "unused"
  /\ wsState' = [wsState EXCEPT ![s] = "open"]
  /\ clients' = [clients EXCEPT ![s] = NoClient]
  /\ evt' = Event("accept", s, "null", 0, "ok")
  /\ out' = Emit("accept", {Frame(s, "connected", "null")})
  /\ UNCHANGED << running, now, horizon, sessions, heartbeatTimers, task,
                  users, hubs, activeAlerts, rateLimits, connects,
                  timeoutPushes, timeoutLogs, lastBeat, armedBy, closedAt,
                  graceReconnect, focus, rateSeen, regen, devices, jobs,
                  loops, boot, fanout, calls, legacy, sdk, observe >>

\* handleClose: fan out session_connection_lost for an authenticated
\* producer, leave its watchdog timer alone, forget the socket
HandleClose(s) ==
  /\ running
  /\ InMap(s)
  /\ out' = Emit("close", IF clients[s].type = "roblox" /\ clients[s].authenticated
                 THEN notifyMobileApps(clients, clients[s].userId,
                                       "session_connection_lost")
                 ELSE {})
  /\ closedAt' = [closedAt EXCEPT ![s] =
                    IF wsState[s] = "open" /\ clients[s].type = "roblox"
                       /\ clients[s].authenticated
                       /\ sessions[s].status = "ACTIVE"
                       /\ heartbeatTimers[s].state = "pending"
                    THEN now ELSE @]
  /\ clients' = [clients EXCEPT ![s] = NoClient]
  /\ wsState' = [wsState EXCEPT ![s] = "closed"]
  /\ evt' = Event("close", s, "null", 0, "ok")
  /\ UNCHANGED << running, now, horizon, sessions, heartbeatTimers, task,
                  users, hubs, activeAlerts, rateLimits, connects,
                  timeoutPushes, timeoutLogs, lastBeat, armedBy,
                  graceReconnect, focus, rateSeen, regen, devices, jobs,
                  loops, boot, fanout, calls, legacy, sdk, observe >>

\* ------------------------------------------------------- producer: connect
\* the checks of handleConnect, in order: "null" when all pass
ConnectError(hubKey, userToken) ==
  IF hubKey = "missing" THEN "INVALID_HUB_KEY"
  ELSE IF validateApiKey(hubKey) = "null" THEN "INVALID_HUB_KEY"
  ELSE IF validateApiKey(hubKey) = "error"
       THEN (IF hubs[hubKey].status = "SUSPENDED" THEN "HUB_SUSPENDED"
             ELSE "HUB_NOT_APPROVED")
  ELSE IF userToken = "missing" THEN "INVALID_USER_TOKEN"
  ELSE IF validateUserToken(userToken) = "null" THEN "INVALID_USER_TOKEN"
  ELSE IF validateUserToken(userToken) = "error" THEN "USER_SUSPENDED"
  ELSE "null"

\* the closed producers whose script (same user, same hub) this connect
\* brings back within the grace period
Reconnects(s, hubKey, userToken) ==
  {c \in Sockets : /\ c # s
                   /\ closedAt[c] >= 0
                   /\ now - closedAt[c] <= reconnectGracePeriod
                   /\ sessions[c].userId = userToken
                   /\ sessions[c].hubId = hubKey}

HandleConnect(s, hubKey, userToken) ==
  /\ Receiving(s)
  /\ evt' = Event("connect", s, userToken, 0, ConnectError(hubKey, userToken))
  /\ IF ConnectError(hubKey, userToken) # "null"
     THEN /\ out' = Emit("connect", sendError(s, ConnectError(hubKey, userToken)))
          /\ wsState' = wsClose(wsState, s)
          /\ UNCHANGED << clients, sessions, heartbeatTimers, hubs, lastBeat,
                          armedBy, graceReconnect, connects >>
     ELSE LET ss == createSession(sessions, userToken, hubKey, s, now)
              cl == [clients EXCEPT ![s] =
                       [type |-> "roblox", userId |-> userToken, hubId |-> hubKey,
                        sessionId |-> ss[s].id, authenticated |-> TRUE]]
          IN /\ hubs[hubKey].totalConnections < MaxConnects
             /\ now + heartbeatTimeout <= horizon
             /\ sessions' = ss
             /\ hubs' = [hubs EXCEPT ![hubKey].totalConnections = @ + 1]
             /\ clients' = cl
             /\ heartbeatTimers' =
                  startHeartbeatMonitor(heartbeatTimers, s, ss[s].id, userToken, now)
             /\ lastBeat' = [lastBeat EXCEPT ![s] = now]
             /\ armedBy' = ArmedBy("start", s)
             /\ connects' = [connects EXCEPT ![s] = @ + 1]
             /\ graceReconnect' =
                  [c \in Sockets |-> graceReconnect[c]
                                     \/ c \in Reconnects(s, hubKey, userToken)]
             /\ out' = Emit("connect", send(s, "authenticated", "null")
                            \cup notifyMobileApps(cl, userToken, "session_started"))
             /\ UNCHANGED wsState
  /\ UNCHANGED << running, now, horizon, task, users, activeAlerts,
                  rateLimits, timeoutPushes, timeoutLogs, closedAt, focus,
                  rateSeen, regen, devices, jobs, loops, boot, fanout, calls,
                  legacy, sdk, observe >>

\* ----------------------------------------------------- producer: heartbeat
HandleHeartbeat(s) ==
  /\ Receiving(s)
  /\ IF ~clients[s].authenticated \/ clients[s].type # "roblox"
     THEN /\ out' = {}
          /\ evt' = Event("heartbeat", s, "null", 0, "ignored")
          /\ UNCHANGED << heartbeatTimers, lastBeat, armedBy, sessions >>
     ELSE /\ heartbeatTimers[s].state # "none" => now + heartbeatTimeout <= horizon
          /\ heartbeatTimers' = resetHeartbeatMonitor(heartbeatTimers, s, now)
          /\ lastBeat' = [lastBeat EXCEPT ![s] =
                            IF heartbeatTimers[s].state # "none" THEN now ELSE @]
          /\ armedBy' = IF heartbeatTimers[s].state # "none"
                        THEN ArmedBy("reset", s) ELSE armedBy
          /\ sessions' = IF clients[s].sessionId # 0
                         THEN updateHeartbeat(sessions, s, now) ELSE sessions
          /\ evt' = Event("heartbeat", s, "null", 0, "ok")
          /\ out' = Emit("heartbeat", send(s, "pong", "null"))
  /\ UNCHANGED << running, now, horizon, wsState, clients, task, users, hubs,
                  activeAlerts, rateLimits, connects, timeoutPushes,
                  timeoutLogs, closedAt, graceReconnect, focus, rateSeen,
                  regen, devices, jobs, loops, boot, fanout, calls, legacy,
                  sdk, observe >>

\* ---------------------------------------------------- producer: disconnect
HandleDisconnect(s) ==
  /\ Receiving(s)
  /\ evt' = Event("disconnect", s, "null", 0, requireAuth(clients[s], "roblox"))
  /\ IF requireAuth(clients[s], "roblox") # "null"
     THEN /\ out' = Emit("disconnect", sendError(s, requireAuth(clients[s], "roblox")))
          /\ UNCHANGED << heartbeatTimers, sessions, wsState, lastBeat, armedBy >>
     ELSE /\ heartbeatTimers' = stopHeartbeatMonitor(heartbeatTimers, s)
          /\ lastBeat' = [lastBeat EXCEPT ![s] = -1]
          /\ armedBy' = ArmedBy("none", s)
          /\ sessions' = disconnectSession(sessions, s, "MANUAL", "Script disconnected")
          /\ out' = Emit("disconnect", notifyMobileApps(clients, clients[s].userId, "session_ended")
                         \cup send(s, "disconnected", "null"))
          /\ wsState' = wsClose(wsState, s)
  /\ UNCHANGED << running, now, horizon, clients, task, users, hubs,
                  activeAlerts, rateLimits, connects, timeoutPushes,
                  timeoutLogs, closedAt, graceReconnect, focus, rateSeen,
                  regen, devices, jobs, loops, boot, fanout, calls, legacy,
                  sdk, observe >>

\* -------------------------------------------------- consumer: authenticate
\* handleMobileAuthenticate: jwt is the user id a valid token decodes to,
\* "missing" (no token) or "unknown" (the verification throws)
MobileAuthError(jwt) ==
  IF jwt = "missing" THEN "NOT_AUTHENTICATED"
  ELSE IF jwt \notin Users THEN "NOT_AUTHENTICATED"
  ELSE IF users[jwt].status = "SUSPENDED" THEN "USER_SUSPENDED"
  ELSE "null"

HandleMobileAuthenticate(s, jwt) ==
  /\ Receiving(s)
  /\ evt' = Event("authenticate", s, jwt, 0, MobileAuthError(jwt))
  /\ IF MobileAuthError(jwt) # "null"
     THEN /\ out' = Emit("authenticate", sendError(s, MobileAuthError(jwt)))
          /\ UNCHANGED clients
     ELSE /\ clients' = [clients EXCEPT ![s] =
                           [@ EXCEPT !.type = "mobile", !.userId = jwt,
                                     !.authenticated = TRUE]]
          /\ out' = Emit("authenticate", send(s, "authenticated", "null"))
  /\ UNCHANGED << running, now, horizon, wsState, sessions, heartbeatTimers,
                  task, users, hubs, activeAlerts, rateLimits, connects,
                  timeoutPushes, timeoutLogs, lastBeat, armedBy, closedAt,
                  graceReconnect, focus, rateSeen, regen, devices, jobs,
                  loops, boot, fanout, calls, legacy, sdk, observe >>

\* ----------------------------------------------- consumer: register_device
\* handleMobileRegister: by = "userToken" | "userId" | "none"
MobileRegisterError(by, who) ==
  IF by = "userToken"
  THEN (IF validateUserToken(who) # "ok" THEN "INVALID_USER_TOKEN" ELSE "null")
  ELSE IF by = "userId"
  THEN (IF who \notin Users THEN "INVALID_USER_TOKEN" ELSE "null")
  ELSE "INVALID_PARAMS"

HandleMobileRegister(s, by, who) ==
  /\ Receiving(s)
  /\ evt' = Event("register_device", s, who, 0, MobileRegisterError(by, who))
  /\ IF MobileRegisterError(by, who) # "null"
     THEN /\ out' = Emit("register_device", sendError(s, MobileRegisterError(by, who)))
          /\ UNCHANGED clients
     ELSE /\ clients' = [clients EXCEPT ![s] =
                           [@ EXCEPT !.type = "mobile", !.userId = who,
                                     !.authenticated = TRUE]]
          /\ out' = Emit("register_device", send(s, "registered", "null"))
  /\ UNCHANGED << running, now, horizon, wsState, sessions, heartbeatTimers,
                  task, users, hubs, activeAlerts, rateLimits, connects,
                  timeoutPushes, timeoutLogs, lastBeat, armedBy, closedAt,
                  graceReconnect, focus, rateSeen, regen, devices, jobs,
                  loops, boot, fanout, calls, legacy, sdk, observe >>

\* ------------------------------------------------------- consumer: command
\* the sockets handleCommand's loop matches for a session id
CommandTargets(cl, sessionId) ==
  {t \in Sockets : /\ InMap(t)
                   /\ cl[t].sessionId = sessionId
                   /\ cl[t].type = "roblox"}

\* Map iteration order is insertion order: the oldest matching socket
FirstTarget(cl, sessionId) ==
  CHOOSE t \in CommandTargets(cl, sessionId) :
    \A r \in CommandTargets(cl, sessionId) : t <= r

CommandResult(s, sessionId) ==
  IF requireAuth(clients[s], "mobile") # "null" THEN requireAuth(clients[s], "mobile")
  ELSE IF sessionId = 0 THEN "INVALID_PARAMS"
  ELSE IF CommandTargets(clients, sessionId) = {} THEN "SESSION_NOT_FOUND"
  ELSE "null"

HandleCommand(s, sessionId) ==
  /\ Receiving(s)
  /\ evt' = Event("command", s, "null", sessionId, CommandResult(s, sessionId))
  /\ out' = Emit("command", IF CommandResult(s, sessionId) # "null"
                 THEN sendError(s, CommandResult(s, sessionId))
                 ELSE send(FirstTarget(clients, sessionId), "command", "null")
                      \cup send(s, "command_sent", "null"))
  /\ UNCHANGED << running, now, horizon, wsState, clients, sessions,
                  heartbeatTimers, task, users, hubs, activeAlerts,
                  rateLimits, connects, timeoutPushes, timeoutLogs, lastBeat,
                  armedBy, closedAt, graceReconnect, focus, rateSeen, regen,
                  devices, jobs, loops, boot, fanout, calls, legacy, sdk,
                  observe >>


\* --------------------------------------------------- producer: rated frames
\* the fixed window of a key as a peer sees it: an accepted frame opens a
\* window when there is none or the last one has elapsed, else it counts
\* into the open window
Counted(seen, clientId, type, t) ==
  LET w == seen[<<clientId, type>>]
  IN IF w.start < 0 \/ t > w.start + RATE_LIMITS[type].windowMs
     THEN [seen EXCEPT ![<<clientId, type>>] = [start |-> t, n |-> 1]]
     ELSE [seen EXCEPT ![<<clientId, type>>].n = @ + 1]

\* the outcome of a rated handler before its own work: the requireAuth
\* error, RATE_LIMITED, or "null"
RatedError(s, type) ==
  IF requireAuth(clients[s], "roblox") # "null"
  THEN requireAuth(clients[s], "roblox")
  ELSE IF ~rateAllowed(rateLimits, s, type, now) THEN "RATE_LIMITED"
  ELSE "null"

\* a run sends the rated frames of its focus; a frame that requireAuth
\* turns away never reaches the limiter and may come from any socket
Sends(s, type) ==
  /\ Receiving(s)
  /\ requireAuth(clients[s], "roblox") = "null" => <<s, type>> \in focus

\* what a rated handler does to the limiter, whatever follows
Limited(s, type) ==
  /\ rateLimits' = IF requireAuth(clients[s], "roblox") = "null"
                   THEN checkRateLimit(rateLimits, s, type, now)
                   ELSE rateLimits
  /\ rateSeen' = IF RatedError(s, type) = "null"
                 THEN Counted(rateSeen, s, type, now)
                 ELSE rateSeen

HandleStatus(s, statusText) ==
  /\ Sends(s, "status")
  /\ Limited(s, "status")
  /\ evt' = Event("status", s, statusText, 0, RatedError(s, "status"))
  /\ IF RatedError(s, "status") # "null"
     THEN /\ out' = Emit("status", sendError(s, RatedError(s, "status")))
          /\ UNCHANGED sessions
     ELSE /\ sessions' = updateStatus(sessions, s, statusText)
          /\ out' = Emit("status", notifyMobileApps(clients, clients[s].userId,
                                          "status_update"))
  /\ UNCHANGED << running, now, horizon, wsState, clients, heartbeatTimers,
                  task, users, hubs, activeAlerts, connects, timeoutPushes,
                  timeoutLogs, lastBeat, armedBy, closedAt, graceReconnect,
                  focus, regen, devices, jobs, loops, boot, fanout, calls,
                  legacy, sdk, observe >>

\* handleLog: fan-out and the Redis history list; no SessionLog row
HandleLog(s) ==
  /\ Sends(s, "log")
  /\ Limited(s, "log")
  /\ evt' = Event("log", s, "null", 0, RatedError(s, "log"))
  /\ out' = Emit("log", IF RatedError(s, "log") # "null"
                 THEN sendError(s, RatedError(s, "log"))
                 ELSE notifyMobileApps(clients, clients[s].userId, "log"))
  /\ UNCHANGED << running, now, horizon, wsState, clients, sessions,
                  heartbeatTimers, task, users, hubs, activeAlerts, connects,
                  timeoutPushes, timeoutLogs, lastBeat, armedBy, closedAt,
                  graceReconnect, focus, regen, devices, jobs, loops, boot,
                  fanout, calls, legacy, sdk, observe >>

\* handleNotify: complete = the frame carries both title and message
HandleNotify(s, complete) ==
  /\ Sends(s, "notify")
  /\ Limited(s, "notify")
  /\ evt' = Event("notify", s, "null", 0,
                  IF RatedError(s, "notify") # "null" THEN RatedError(s, "notify")
                  ELSE IF ~complete THEN "INVALID_PARAMS" ELSE "null")
  /\ out' = Emit("notify", IF RatedError(s, "notify") # "null"
                 THEN sendError(s, RatedError(s, "notify"))
                 ELSE IF ~complete THEN sendError(s, "INVALID_PARAMS")
                 ELSE notifyMobileApps(clients, clients[s].userId, "notification")
                      \cup {Push(clients[s].userId, "notification")})
  /\ UNCHANGED << running, now, horizon, wsState, clients, sessions,
                  heartbeatTimers, task, users, hubs, activeAlerts, connects,
                  timeoutPushes, timeoutLogs, lastBeat, armedBy, closedAt,
                  graceReconnect, focus, regen, devices, jobs, loops, boot,
                  fanout, calls, legacy, sdk, observe >>

HandleAlert(s) ==
  /\ Sends(s, "alert")
  /\ Limited(s, "alert")
  /\ evt' = Event("alert", s, "null", 0, RatedError(s, "alert"))
  /\ out' = Emit("alert", IF RatedError(s, "alert") # "null"
                 THEN sendError(s, RatedError(s, "alert"))
                 ELSE notifyMobileApps(clients, clients[s].userId, "critical_alert")
                      \cup {Push(clients[s].userId, "critical")})
  /\ UNCHANGED << running, now, horizon, wsState, clients, sessions,
                  heartbeatTimers, task, users, hubs, activeAlerts, connects,
                  timeoutPushes, timeoutLogs, lastBeat, armedBy, closedAt,
                  graceReconnect, focus, regen, devices, jobs, loops, boot,
                  fanout, calls, legacy, sdk, observe >>
\* ------------------------------------------------------ the timer callback
\* the setTimeout callback of startHeartbeatMonitor: the entry stays in the
\* map; triggerDeadManSwitch has called handleTimeout, which awaits its read
TimerFire(c) ==
  /\ heartbeatTimers[c].state = "pending"
  /\ now >= heartbeatTimers[c].deadline
  /\ task[c].pc = "idle"
  /\ heartbeatTimers' = [heartbeatTimers EXCEPT ![c].state = "fired"]
  /\ task' = [task EXCEPT ![c].pc = "find"]
  /\ evt' = Event("timer", c, "null", 0, "ok")
  /\ out' = {}
  /\ UNCHANGED << running, now, horizon, wsState, clients, sessions, users,
                  hubs, activeAlerts, rateLimits, connects, timeoutPushes,
                  timeoutLogs, lastBeat, armedBy, closedAt, graceReconnect,
                  focus, rateSeen, regen, devices, jobs, loops, boot, fanout,
                  calls, legacy, sdk, observe >>

\* handleTimeout: findUnique({wsClientId}) with the user's preferences, then
\* the quiet-hours decision (minute: the server's local minute of day)
TimeoutFind(c, minute) ==
  /\ task[c].pc = "find"
  /\ task' = [task EXCEPT ![c] =
       IF sessions[c].status = "NONE" THEN IdleTask
       ELSE [pc |-> IF users[sessions[c].userId].quietHoursEnabled
                       /\ isQuietHours(users[sessions[c].userId], minute)
                    THEN "quiet" ELSE "alert",
             sid |-> sessions[c].id, userId |-> sessions[c].userId,
             lod |-> users[sessions[c].userId].lifeOrDeathMode]]
  /\ evt' = Event("timeout_find", c, "null", 0, "ok")
  /\ out' = {}
  /\ UNCHANGED << running, now, horizon, wsState, clients, sessions,
                  heartbeatTimers, users, hubs, activeAlerts, rateLimits,
                  connects, timeoutPushes, timeoutLogs, lastBeat, armedBy,
                  closedAt, graceReconnect, focus, rateSeen, regen, devices,
                  jobs, loops, boot, fanout, calls, legacy, sdk, observe >>

\* quiet hours: the row becomes TIMEOUT, no log, no push
TimeoutQuiet(c) ==
  /\ task[c].pc = "quiet"
  /\ sessions' = markTimeout(sessions, task[c].sid,
                             "Heartbeat timeout (quiet hours - no alert)", FALSE)
  /\ task' = [task EXCEPT ![c].pc = "close"]
  /\ evt' = Event("timeout_quiet", c, "null", 0, "ok")
  /\ out' = {}
  /\ UNCHANGED << running, now, horizon, wsState, clients, heartbeatTimers,
                  users, hubs, activeAlerts, rateLimits, connects,
                  timeoutPushes, timeoutLogs, lastBeat, armedBy, closedAt,
                  graceReconnect, focus, rateSeen, regen, devices, jobs,
                  loops, boot, fanout, calls, legacy, sdk, observe >>

\* outside quiet hours: logService.createLog at level error, then
\* deviceService.sendCriticalAlertToUser, then startAlertLoop's read of the
\* user's lifeOrDeathMode
TimeoutAlert(c) ==
  /\ task[c].pc = "alert"
  /\ timeoutLogs' = [timeoutLogs EXCEPT ![c] = @ + 1]
  /\ timeoutPushes' = [timeoutPushes EXCEPT ![c] = @ + 1]
  /\ task' = [task EXCEPT ![c].pc =
                IF task[c].lod /\ users[task[c].userId].lifeOrDeathMode
                THEN "loopFind" ELSE "update"]
  /\ evt' = Event("timeout_alert", c, "null", 0, "ok")
  /\ out' = Emit("timeout_alert", {Push(task[c].userId, "critical")})
  /\ UNCHANGED << running, now, horizon, wsState, clients, sessions,
                  heartbeatTimers, users, hubs, activeAlerts, rateLimits,
                  connects, lastBeat, armedBy, closedAt, graceReconnect,
                  focus, rateSeen, regen, devices, jobs, loops, boot, fanout,
                  calls, legacy, sdk, observe >>

\* -------------------------------------------------------------- alert loop
UnacknowledgedAlerts(alerts, userId) ==
  {i \in DOMAIN alerts : alerts[i].userId = userId /\ ~alerts[i].acknowledged}

\* startAlertLoop: findFirst({userId, acknowledged: false})
LoopFind(c) ==
  /\ task[c].pc = "loopFind"
  /\ task' = [task EXCEPT ![c].pc =
                IF UnacknowledgedAlerts(activeAlerts, task[c].userId) # {}
                THEN "update" ELSE "loopCreate"]
  /\ evt' = Event("loop_find", c, "null", 0, "ok")
  /\ out' = {}
  /\ UNCHANGED << running, now, horizon, wsState, clients, sessions,
                  heartbeatTimers, users, hubs, activeAlerts, rateLimits,
                  connects, timeoutPushes, timeoutLogs, lastBeat, armedBy,
                  closedAt, graceReconnect, focus, rateSeen, regen, devices,
                  jobs, loops, boot, fanout, calls, legacy, sdk, observe >>

\* startAlertLoop: activeAlert.create, then startLoop
LoopCreate(c) ==
  /\ task[c].pc = "loopCreate"
  /\ Len(activeAlerts) < MaxAlerts
  /\ activeAlerts' = Append(activeAlerts,
       [userId |-> task[c].userId, sessionId |-> task[c].sid,
        notificationsSent |-> 1, acknowledged |-> FALSE, loop |-> TRUE])
  /\ task' = [task EXCEPT ![c].pc = "update"]
  /\ evt' = Event("loop_create", c, "null", 0, "ok")
  /\ out' = {}
  /\ UNCHANGED << running, now, horizon, wsState, clients, sessions,
                  heartbeatTimers, users, hubs, rateLimits, connects,
                  timeoutPushes, timeoutLogs, lastBeat, armedBy, closedAt,
                  graceReconnect, focus, rateSeen, regen, devices, jobs,
                  loops, boot, fanout, calls, legacy, sdk, observe >>

\* handleTimeout's final write: status TIMEOUT, alertSent true
TimeoutUpdate(c) ==
  /\ task[c].pc = "update"
  /\ sessions' = markTimeout(sessions, task[c].sid, "Heartbeat timeout", TRUE)
  /\ task' = [task EXCEPT ![c].pc = "close"]
  /\ evt' = Event("timeout_update", c, "null", 0, "ok")
  /\ out' = {}
  /\ UNCHANGED << running, now, horizon, wsState, clients, heartbeatTimers,
                  users, hubs, activeAlerts, rateLimits, connects,
                  timeoutPushes, timeoutLogs, lastBeat, armedBy, closedAt,
                  graceReconnect, focus, rateSeen, regen, devices, jobs,
                  loops, boot, fanout, calls, legacy, sdk, observe >>

\* back in triggerDeadManSwitch: close the socket whose client id matches
TimeoutClose(c) ==
  /\ task[c].pc = "close"
  /\ wsState' = IF running THEN wsClose(wsState, c) ELSE wsState
  /\ task' = [task EXCEPT ![c] = IdleTask]
  /\ lastBeat' = [lastBeat EXCEPT ![c] =
                    IF heartbeatTimers[c].state = "pending" THEN @ ELSE -1]
  /\ armedBy' = IF heartbeatTimers[c].state = "pending"
                THEN armedBy ELSE ArmedBy("none", c)
  /\ evt' = Event("timeout_close", c, "null", 0, "ok")
  /\ out' = {}
  /\ UNCHANGED << running, now, horizon, clients, sessions, heartbeatTimers,
                  users, hubs, activeAlerts, rateLimits, connects,
                  timeoutPushes, timeoutLogs, closedAt, graceReconnect,
                  focus, rateSeen, regen, devices, jobs, loops, boot, fanout,
                  calls, legacy, sdk, observe >>

\* alertLoopService.acknowledgeAlert (POST /alerts/:alertId/acknowledge)
AcknowledgeAlert(i, userId) ==
  /\ running
  /\ i \in DOMAIN activeAlerts
  /\ activeAlerts[i].userId = userId
  /\ ~activeAlerts[i].acknowledged
  /\ activeAlerts' = [activeAlerts EXCEPT ![i].acknowledged = TRUE,
                                          ![i].loop = FALSE]
  /\ evt' = Event("acknowledge", 0, userId, i, "ok")
  /\ out' = {}
  /\ UNCHANGED << running, now, horizon, wsState, clients, sessions,
                  heartbeatTimers, task, users, hubs, rateLimits, connects,
                  timeoutPushes, timeoutLogs, lastBeat, armedBy, closedAt,
                  graceReconnect, focus, rateSeen, regen, devices, jobs,
                  loops, boot, fanout, calls, legacy, sdk, observe >>

\* --------------------------------------------------------- HTTP operations
\* DELETE /users/me/sessions/:id by the session's owner
StopSession(c) ==
  /\ running
  /\ sessions[c].status # "NONE"
  /\ sessions' = disconnectSessionById(sessions, sessions[c].id, "MANUAL",
                                       "Stopped by user from mobile app")
  /\ evt' = Event("stop_session", c, "null", sessions[c].id, "ok")
  /\ out' = {}
  /\ UNCHANGED << running, now, horizon, wsState, clients, heartbeatTimers,
                  task, users, hubs, activeAlerts, rateLimits, connects,
                  timeoutPushes, timeoutLogs, lastBeat, armedBy, closedAt,
                  graceReconnect, focus, rateSeen, regen, devices, jobs,
                  loops, boot, fanout, calls, legacy, sdk, observe >>

\* POST /users/me/token/regenerate
RegenerateToken(userId) ==
  /\ running
  /\ sessions' = regenerateUserToken(sessions, userId)
  /\ evt' = Event("regenerate_token", 0, userId, 0, "ok")
  /\ out' = {}
  /\ UNCHANGED << running, now, horizon, wsState, clients, heartbeatTimers,
                  task, users, hubs, activeAlerts, rateLimits, connects,
                  timeoutPushes, timeoutLogs, lastBeat, armedBy, closedAt,
                  graceReconnect, focus, rateSeen, regen, devices, jobs,
                  loops, boot, fanout, calls, legacy, sdk, observe >>

\* POST /admin/hubs/:id/suspend
SuspendHub(hubId) ==
  /\ running
  /\ sessions' = suspendHub(sessions, hubId)
  /\ hubs' = [hubs EXCEPT ![hubId].status = "SUSPENDED"]
  /\ evt' = Event("suspend_hub", 0, hubId, 0, "ok")
  /\ out' = {}
  /\ UNCHANGED << running, now, horizon, wsState, clients, heartbeatTimers,
                  task, users, activeAlerts, rateLimits, connects,
                  timeoutPushes, timeoutLogs, lastBeat, armedBy, closedAt,
                  graceReconnect, focus, rateSeen, regen, devices, jobs,
                  loops, boot, fanout, calls, legacy, sdk, observe >>

\* ---------------------------------------------------------------- shutdown
\* clear every timer, disconnect the sessions of the producers still in the
\* map, close and forget every socket
Shutdown ==
  /\ running
  /\ running' = FALSE
  /\ heartbeatTimers' = [c \in Sockets |-> NoTimer]
  /\ lastBeat' = [c \in Sockets |-> -1]
  /\ armedBy' = [c \in Sockets |-> "none"]
  /\ sessions' = [c \in Sockets |->
       IF InMap(c) /\ clients[c].type = "roblox"
          /\ clients[c].sessionId # 0
       THEN disconnectSession(sessions, c, "SERVER_SHUTDOWN", "Server maintenance")[c]
       ELSE sessions[c]]
  /\ wsState' = [c \in Sockets |->
       IF InMap(c) THEN "closed" ELSE wsState[c]]
  /\ clients' = [c \in Sockets |-> NoClient]
  /\ evt' = Event("shutdown", 0, "null", 0, "ok")
  /\ out' = {}
  /\ UNCHANGED << now, horizon, task, users, hubs, activeAlerts, rateLimits,
                  connects, timeoutPushes, timeoutLogs, closedAt,
                  graceReconnect, focus, rateSeen, regen, devices, jobs,
                  loops, boot, fanout, calls, legacy, sdk, observe >>

\* -------------------------------------------------------------------- time
\* Date.now() advances: a due timer runs before the clock moves on, and the
\* awaits of a running timer callback complete within the tick
Tick(ms) ==
  /\ running
  /\ now + ms <= horizon
  /\ \A c \in Sockets : task[c].pc = "idle"
  /\ \A c \in Sockets : heartbeatTimers[c].state = "pending"
                          => heartbeatTimers[c].deadline > now
  /\ now' = now + ms
  /\ closedAt' = [c \in Sockets |->
                    IF closedAt[c] >= 0 /\ now' - closedAt[c] > reconnectGracePeriod
                    THEN -1 ELSE closedAt[c]]
  /\ evt' = Event("tick", 0, "null", 0, "ok")
  /\ out' = {}
  /\ UNCHANGED << running, horizon, wsState, clients, sessions,
                  heartbeatTimers, task, users, hubs, activeAlerts,
                  rateLimits, connects, timeoutPushes, timeoutLogs, lastBeat,
                  armedBy, graceReconnect, focus, rateSeen, regen, devices,
                  jobs, loops, boot, fanout, calls, legacy, sdk, observe >>

\* -------------------------------------------------------------- the system
TimeoutStep(c) ==
  \/ \E minute \in MinuteSamples : TimeoutFind(c, minute)
  \/ TimeoutQuiet(c)
  \/ TimeoutAlert(c)
  \/ LoopFind(c)
  \/ LoopCreate(c)
  \/ TimeoutUpdate(c)
  \/ TimeoutClose(c)

\* the watchdog and the session state machine, in time
Next ==
  \/ \E s \in Sockets : Accept(s)
  \/ \E s \in Sockets : HandleClose(s)
  \/ \E s \in Sockets, hubKey \in HubKeyInputs, userToken \in UserTokenInputs :
       HandleConnect(s, hubKey, userToken)
  \/ \E s \in Sockets : HandleHeartbeat(s)
  \/ \E s \in Sockets : HandleDisconnect(s)
  \/ \E c \in Sockets : TimerFire(c)
  \/ \E c \in Sockets : TimeoutStep(c)
  \/ \E i \in 1..MaxAlerts, userId \in Users : AcknowledgeAlert(i, userId)
  \/ Tick(TickMs)

Spec == Init /\ [][Next]_vars

\* the operations of the REST side and of the process, between two instants
\* of the clock: stop from the app, token regeneration, hub suspension,
\* shutdown, and the frames that open, re-role and end a socket
InitOps == InitState /\ horizon = heartbeatTimeout /\ focus = {} /\ observe = {}

NextOps ==
  \/ \E s \in Sockets : Accept(s)
  \/ \E s \in Sockets : HandleClose(s)
  \/ \E s \in Sockets, hubKey \in HubKeyInputs, userToken \in UserTokenInputs :
       HandleConnect(s, hubKey, userToken)
  \/ \E s \in Sockets : HandleHeartbeat(s)
  \/ \E s \in Sockets : HandleDisconnect(s)
  \/ \E s \in Sockets, by \in {"userToken", "userId", "none"}, who \in UserTokenInputs :
       HandleMobileRegister(s, by, who)
  \/ \E c \in Sockets : StopSession(c)
  \/ \E userId \in Users : RegenerateToken(userId)
  \/ \E hubId \in Hubs : SuspendHub(hubId)
  \/ Shutdown

SpecOps == InitOps /\ [][NextOps]_vars

\* the router as a peer sees it: every frame type on every socket, with the
\* frames and pushes each handler emits
InitRouter == InitState /\ horizon = heartbeatTimeout /\ focus = {} /\ observe = FrameTypes \cup {"accept", "close"}

NextRouter ==
  \/ \E s \in Sockets : Accept(s)
  \/ \E s \in Sockets : HandleClose(s)
  \/ \E s \in Sockets, hubKey \in HubKeyInputs, userToken \in UserTokenInputs :
       HandleConnect(s, hubKey, userToken)
  \/ \E s \in Sockets : HandleHeartbeat(s)
  \/ \E s \in Sockets : HandleDisconnect(s)
  \/ \E s \in Sockets : HandleStatus(s, "farming")
  \/ \E s \in Sockets : HandleLog(s)
  \/ \E s \in Sockets, complete \in BOOLEAN : HandleNotify(s, complete)
  \/ \E s \in Sockets : HandleAlert(s)
  \/ \E s \in Sockets, jwt \in UserTokenInputs : HandleMobileAuthenticate(s, jwt)
  \/ \E s \in Sockets, by \in {"userToken", "userId", "none"}, who \in UserTokenInputs :
       HandleMobileRegister(s, by, who)
  \/ \E s \in Sockets, sessionId \in 0..MaxSockets : HandleCommand(s, sessionId)

SpecRouter == InitRouter /\ [][NextRouter]_vars

\* the rate limiter over more than one window: producers that keep their
\* watchdog fed, a consumer listening, and the rated frames of two keys
RateFocus ==
  { {<<1, "notify">>, <<1, "alert">>},
    {<<1, "alert">>, <<2, "alert">>},
    {<<1, "status">>},
    {<<1, "log">>} }

InitRate ==
  InitState /\ horizon = RateMaxTime /\ focus \in RateFocus /\ observe = RatedClasses

NextRate ==
  \/ \E s \in Sockets : Accept(s)
  \/ \E s \in Sockets : HandleConnect(s, "H1", "A")
  \/ \E s \in Sockets : HandleMobileRegister(s, "userToken", "A")
  \/ \E s \in Sockets : HandleHeartbeat(s)
  \/ \E s \in Sockets : HandleStatus(s, "farming")
  \/ \E s \in Sockets : HandleLog(s)
  \/ \E s \in Sockets, complete \in BOOLEAN : HandleNotify(s, complete)
  \/ \E s \in Sockets : HandleAlert(s)
  \/ Tick(RateTickMs)

SpecRate == InitRate /\ [][NextRate]_vars

\* the watchdog alone, with its timers and the clock scheduled fairly: the
\* event loop runs a due setTimeout callback, resumes a callback whose
\* await has settled, and the clock goes on
NextLive ==
  \/ \E s \in Sockets : Accept(s)
  \/ \E s \in Sockets : HandleClose(s)
  \/ \E s \in Sockets : HandleConnect(s, "H1", "A")
  \/ \E s \in Sockets : HandleHeartbeat(s)
  \/ \E s \in Sockets : HandleDisconnect(s)
  \/ \E c \in Sockets : TimerFire(c)
  \/ \E c \in Sockets : TimeoutStep(c)
  \/ Tick(TickMs)

InitLive == InitState /\ horizon = MaxTime /\ focus = {} /\ observe = {}

SpecLive ==
  /\ InitLive
  /\ [][NextLive]_vars
  /\ WF_vars(Tick(TickMs))
  /\ \A c \in Sockets : WF_vars(TimerFire(c)) /\ WF_vars(TimeoutStep(c))

\* ------------------------------------------------------- hub administration
\* hubService.approveHub / rejectHub: the admin sets the hub's status
ApproveHub(hubId) ==
  /\ running
  /\ hubs[hubId].status # "APPROVED"
  /\ hubs' = [hubs EXCEPT ![hubId].status = "APPROVED"]
  /\ evt' = Event("approve_hub", 0, hubId, 0, "ok")
  /\ out' = {}
  /\ UNCHANGED << running, now, horizon, wsState, clients, sessions,
                  heartbeatTimers, task, users, activeAlerts, rateLimits,
                  connects, timeoutPushes, timeoutLogs, lastBeat, armedBy,
                  closedAt, graceReconnect, focus, rateSeen, regen, devices,
                  jobs, loops, boot, fanout, calls, legacy, sdk, observe >>

RejectHub(hubId) ==
  /\ running
  /\ hubs[hubId].status # "REJECTED"
  /\ hubs' = [hubs EXCEPT ![hubId].status = "REJECTED"]
  /\ evt' = Event("reject_hub", 0, hubId, 0, "ok")
  /\ out' = {}
  /\ UNCHANGED << running, now, horizon, wsState, clients, sessions,
                  heartbeatTimers, task, users, activeAlerts, rateLimits,
                  connects, timeoutPushes, timeoutLogs, lastBeat, armedBy,
                  closedAt, graceReconnect, focus, rateSeen, regen, devices,
                  jobs, loops, boot, fanout, calls, legacy, sdk, observe >>

\* producers connecting while the admin approves, rejects and suspends hubs
InitHub ==
  InitState /\ horizon = heartbeatTimeout /\ focus = {} /\ observe = {"connect"}

NextHub ==
  \/ \E s \in Sockets : Accept(s)
  \/ \E s \in Sockets : HandleClose(s)
  \/ \E s \in Sockets, hubKey \in HubKeyInputs, userToken \in {"A", "missing"} :
       HandleConnect(s, hubKey, userToken)
  \/ \E hubId \in Hubs : ApproveHub(hubId)
  \/ \E hubId \in Hubs : RejectHub(hubId)
  \/ \E hubId \in Hubs : SuspendHub(hubId)

SpecHub == InitHub /\ [][NextHub]_vars

\* ------------------------------------------- token regeneration, await by await
\* POST /users/me/token/regenerate calls regenerateUserToken; was: the
\* user's sessions that are ACTIVE at the call
RegenCall(userId) ==
  /\ running
  /\ regen.pc = "idle"
  /\ regen' = [pc |-> "disconnect", userId |-> userId,
               was |-> {c \in Sockets : sessions[c].userId = userId
                                        /\ sessions[c].status = "ACTIVE"}]
  /\ UNCHANGED << running, now, horizon, wsState, clients, sessions,
                  heartbeatTimers, task, users, hubs, activeAlerts,
                  rateLimits, connects, timeoutPushes, timeoutLogs, lastBeat,
                  armedBy, closedAt, graceReconnect, focus, rateSeen,
                  devices, jobs, loops, boot, fanout, calls, legacy, sdk,
                  observe, evt, out >>

\* await prisma.session.updateMany
RegenDisconnect ==
  /\ regen.pc = "disconnect"
  /\ sessions' = regenerateUserToken(sessions, regen.userId)
  /\ regen' = [regen EXCEPT !.pc = "update"]
  /\ UNCHANGED << running, now, horizon, wsState, clients, heartbeatTimers,
                  task, users, hubs, activeAlerts, rateLimits, connects,
                  timeoutPushes, timeoutLogs, lastBeat, armedBy, closedAt,
                  graceReconnect, focus, rateSeen, devices, jobs, loops,
                  boot, fanout, calls, legacy, sdk, observe, evt, out >>

\* await prisma.user.update, then the call returns
RegenReturn ==
  /\ regen.pc = "update"
  /\ regen' = [regen EXCEPT !.pc = "returned"]
  /\ UNCHANGED << running, now, horizon, wsState, clients, sessions,
                  heartbeatTimers, task, users, hubs, activeAlerts,
                  rateLimits, connects, timeoutPushes, timeoutLogs, lastBeat,
                  armedBy, closedAt, graceReconnect, focus, rateSeen,
                  devices, jobs, loops, boot, fanout, calls, legacy, sdk,
                  observe, evt, out >>

\* a connect handled before the regeneration is called
ConnectBeforeRegen(s, userToken) ==
  regen.pc = "idle" /\ HandleConnect(s, "H1", userToken)

\* a token regeneration while the producers connected before the call
\* heartbeat, disconnect and time out
InitRevoke ==
  InitState /\ horizon = heartbeatTimeout + TickMs /\ focus = {} /\ observe = {}

NextRevoke ==
  \/ \E s \in Sockets : Accept(s)
  \/ \E s \in Sockets, userToken \in Users : ConnectBeforeRegen(s, userToken)
  \/ \E s \in Sockets : HandleHeartbeat(s)
  \/ \E s \in Sockets : HandleDisconnect(s)
  \/ \E c \in Sockets : TimerFire(c)
  \/ \E c \in Sockets : TimeoutStep(c)
  \/ Tick(TickMs)
  \/ \E userId \in Users : RegenCall(userId)
  \/ RegenDisconnect
  \/ RegenReturn

SpecRevoke == InitRevoke /\ [][NextRevoke]_vars

\* ------------------------------------------------------------ device store
\* prisma.device.findUnique({where: {fcmToken}}): fcmToken is a unique column
DeviceByToken(dv, fcmToken) ==
  {d \in DeviceIds : dv[d].state = "live" /\ dv[d].fcmToken = fcmToken}

\* the id prisma.device.create gives out next
FreshDevice(dv) ==
  {d \in DeviceIds : dv[d].state = "none"
                     /\ \A e \in DeviceIds : e < d => dv[e].state # "none"}

\* a registration that never looks for the token's row
registerAlwaysCreates(dv, userId, fcmToken, platform) ==
  [d \in DeviceIds |->
     IF d \in FreshDevice(dv)
     THEN [state |-> "live", fcmToken |-> fcmToken, userId |-> userId,
           platform |-> platform, isActive |-> TRUE, failedAttempts |-> 0]
     ELSE dv[d]]

\* deviceService.registerDevice: update the token's row, else create one
registerDevice(dv, userId, fcmToken, platform) ==
  IF DeviceByToken(dv, fcmToken) # {}
  THEN [d \in DeviceIds |->
          IF d \in DeviceByToken(dv, fcmToken)
          THEN [dv[d] EXCEPT !.userId = userId, !.platform = platform,
                             !.isActive = TRUE, !.failedAttempts = 0]
          ELSE dv[d]]
  ELSE [d \in DeviceIds |->
          IF d \in FreshDevice(dv)
          THEN [state |-> "live", fcmToken |-> fcmToken, userId |-> userId,
                platform |-> platform, isActive |-> TRUE, failedAttempts |-> 0]
          ELSE dv[d]]

\* deviceService.updateFcmToken: the update is rejected by the unique index
\* when another row already holds newToken
updateFcmToken(dv, oldToken, newToken) ==
  IF DeviceByToken(dv, oldToken) = {} THEN dv
  ELSE IF DeviceByToken(dv, newToken) \ DeviceByToken(dv, oldToken) # {} THEN dv
  ELSE [d \in DeviceIds |->
          IF d \in DeviceByToken(dv, oldToken)
          THEN [dv[d] EXCEPT !.fcmToken = newToken, !.failedAttempts = 0]
          ELSE dv[d]]

\* deviceService.removeDevice: hard delete of the user's own device
removeDevice(dv, userId, deviceId) ==
  IF dv[deviceId].state = "live" /\ dv[deviceId].userId = userId
  THEN [dv EXCEPT ![deviceId] = GoneDevice]
  ELSE dv

\* a failure write that counts but never deactivates
markWriteKeepsActive(dv, deviceId, read) ==
  IF dv[deviceId].state # "live" THEN dv
  ELSE [dv EXCEPT ![deviceId].failedAttempts = read + 1]

\* markTokenInvalid's write: failedAttempts = read + 1, inactive from 3 on
markWrite(dv, deviceId, read) ==
  IF dv[deviceId].state # "live" THEN dv
  ELSE IF read + 1 >= 3
  THEN [dv EXCEPT ![deviceId].failedAttempts = read + 1,
                  ![deviceId].isActive = FALSE]
  ELSE [dv EXCEPT ![deviceId].failedAttempts = read + 1]

\* getUserFcmTokens / getUserDevices: the user's active devices
ActiveDevices(dv, userId) ==
  {d \in DeviceIds : dv[d].state = "live" /\ dv[d].userId = userId /\ dv[d].isActive}

\* POST /users/me/devices
RegisterDevice(userId, fcmToken, platform) ==
  /\ running
  /\ DeviceByToken(devices, fcmToken) = {} => FreshDevice(devices) # {}
  /\ devices' = registerDevice(devices, userId, fcmToken, platform)
  /\ evt' = Event("register", 0, userId,
                  IF DeviceByToken(devices, fcmToken) = {} THEN 0
                  ELSE CHOOSE d \in DeviceByToken(devices, fcmToken) : TRUE,
                  fcmToken)
  /\ out' = {}
  /\ UNCHANGED << running, now, horizon, wsState, clients, sessions,
                  heartbeatTimers, task, users, hubs, activeAlerts,
                  rateLimits, connects, timeoutPushes, timeoutLogs, lastBeat,
                  armedBy, closedAt, graceReconnect, focus, rateSeen, regen,
                  jobs, loops, boot, fanout, calls, legacy, sdk, observe >>

\* handleMobileRegister for a frame that carries an fcmToken: authenticate
\* the socket as consumer, then registerDevice
HandleMobileRegisterDevice(s, by, who, fcmToken, platform) ==
  /\ Receiving(s)
  /\ MobileRegisterError(by, who) = "null"
  /\ DeviceByToken(devices, fcmToken) = {} => FreshDevice(devices) # {}
  /\ clients' = [clients EXCEPT ![s] =
                   [@ EXCEPT !.type = "mobile", !.userId = who,
                             !.authenticated = TRUE]]
  /\ devices' = registerDevice(devices, who, fcmToken, platform)
  /\ evt' = Event("register", s, who,
                  IF DeviceByToken(devices, fcmToken) = {} THEN 0
                  ELSE CHOOSE d \in DeviceByToken(devices, fcmToken) : TRUE,
                  fcmToken)
  /\ out' = Emit("register_device", send(s, "registered", "null"))
  /\ UNCHANGED << running, now, horizon, wsState, sessions, heartbeatTimers,
                  task, users, hubs, activeAlerts, rateLimits, connects,
                  timeoutPushes, timeoutLogs, lastBeat, armedBy, closedAt,
                  graceReconnect, focus, rateSeen, regen, jobs, loops, boot,
                  fanout, calls, legacy, sdk, observe >>

\* PUT /users/me/devices/token
UpdateFcmToken(oldToken, newToken) ==
  /\ running
  /\ devices' = updateFcmToken(devices, oldToken, newToken)
  /\ evt' = Event("update_token", 0, "null", 0, newToken)
  /\ out' = {}
  /\ UNCHANGED << running, now, horizon, wsState, clients, sessions,
                  heartbeatTimers, task, users, hubs, activeAlerts,
                  rateLimits, connects, timeoutPushes, timeoutLogs, lastBeat,
                  armedBy, closedAt, graceReconnect, focus, rateSeen, regen,
                  jobs, loops, boot, fanout, calls, legacy, sdk, observe >>

\* DELETE /users/me/devices/:id
RemoveDevice(userId, deviceId) ==
  /\ running
  /\ devices' = removeDevice(devices, userId, deviceId)
  /\ evt' = Event("remove_device", 0, userId, deviceId, "ok")
  /\ out' = {}
  /\ UNCHANGED << running, now, horizon, wsState, clients, sessions,
                  heartbeatTimers, task, users, hubs, activeAlerts,
                  rateLimits, connects, timeoutPushes, timeoutLogs, lastBeat,
                  armedBy, closedAt, graceReconnect, focus, rateSeen, regen,
                  jobs, loops, boot, fanout, calls, legacy, sdk, observe >>

\* sendCriticalAlertToUser / sendPushToUser: the send to one of the user's
\* active devices starts
PushStart(j, d) ==
  /\ running
  /\ jobs[j].pc = "idle"
  /\ devices[d].state = "live" /\ devices[d].isActive
  /\ jobs' = [jobs EXCEPT ![j] = [pc |-> "fcm", userId |-> devices[d].userId,
                                  dev |-> d, fcmToken |-> devices[d].fcmToken,
                                  read |-> 0]]
  /\ UNCHANGED << running, now, horizon, wsState, clients, sessions,
                  heartbeatTimers, task, users, hubs, activeAlerts,
                  rateLimits, connects, timeoutPushes, timeoutLogs, lastBeat,
                  armedBy, closedAt, graceReconnect, focus, rateSeen, regen,
                  devices, loops, boot, fanout, calls, legacy, sdk, observe,
                  evt, out >>

\* the send succeeded: reset the failure counter of the device, by id
PushSucceed(j) ==
  /\ jobs[j].pc = "fcm"
  /\ devices' = IF devices[jobs[j].dev].state = "live"
                THEN [devices EXCEPT ![jobs[j].dev].failedAttempts = 0]
                ELSE devices
  /\ jobs' = [jobs EXCEPT ![j] = NoJob]
  /\ UNCHANGED << running, now, horizon, wsState, clients, sessions,
                  heartbeatTimers, task, users, hubs, activeAlerts,
                  rateLimits, connects, timeoutPushes, timeoutLogs, lastBeat,
                  armedBy, closedAt, graceReconnect, focus, rateSeen, regen,
                  loops, boot, fanout, calls, legacy, sdk, observe, evt,
                  out >>

\* the send failed: markTokenInvalid reads the token's row
PushFail(j) ==
  /\ jobs[j].pc = "fcm"
  /\ \A d \in DeviceByToken(devices, jobs[j].fcmToken) :
       devices[d].failedAttempts < MaxFailed
  /\ jobs' = IF DeviceByToken(devices, jobs[j].fcmToken) = {}
             THEN [jobs EXCEPT ![j] = NoJob]
             ELSE LET d == CHOOSE d \in DeviceByToken(devices, jobs[j].fcmToken) : TRUE
                  IN [jobs EXCEPT ![j] = [jobs[j] EXCEPT
                                            !.pc = "write", !.dev = d,
                                            !.read = devices[d].failedAttempts]]
  /\ UNCHANGED << running, now, horizon, wsState, clients, sessions,
                  heartbeatTimers, task, users, hubs, activeAlerts,
                  rateLimits, connects, timeoutPushes, timeoutLogs, lastBeat,
                  armedBy, closedAt, graceReconnect, focus, rateSeen, regen,
                  devices, loops, boot, fanout, calls, legacy, sdk, observe,
                  evt, out >>

\* markTokenInvalid writes the count it computed from its read
MarkWrite(j) ==
  /\ jobs[j].pc = "write"
  /\ devices' = markWrite(devices, jobs[j].dev, jobs[j].read)
  /\ jobs' = [jobs EXCEPT ![j] = NoJob]
  /\ UNCHANGED << running, now, horizon, wsState, clients, sessions,
                  heartbeatTimers, task, users, hubs, activeAlerts,
                  rateLimits, connects, timeoutPushes, timeoutLogs, lastBeat,
                  armedBy, closedAt, graceReconnect, focus, rateSeen, regen,
                  loops, boot, fanout, calls, legacy, sdk, observe, evt,
                  out >>

\* devices registering, refreshing and leaving while pushes succeed and fail
InitDevice ==
  InitState /\ horizon = 0 /\ focus = {} /\ observe = {}

NextDevice ==
  \/ \E userId \in Users, fcmToken \in Tokens :
       RegisterDevice(userId, fcmToken, "android")
  \/ \E oldToken \in Tokens, newToken \in Tokens : UpdateFcmToken(oldToken, newToken)
  \/ \E userId \in Users, deviceId \in DeviceIds : RemoveDevice(userId, deviceId)
  \/ \E j \in Jobs, d \in DeviceIds : PushStart(j, d)
  \/ \E j \in Jobs : PushSucceed(j)
  \/ \E j \in Jobs : PushFail(j)
  \/ \E j \in Jobs : MarkWrite(j)

SpecDevice == InitDevice /\ [][NextDevice]_vars

\* registration over HTTP and over the consumer socket, token refresh and
\* removal, with one push at a time failing or succeeding
InitRegister ==
  InitState /\ horizon = 0 /\ focus = {} /\ observe = {"register"}

NextRegister ==
  \/ Accept(1)
  \/ \E who \in Users, fcmToken \in Tokens :
       HandleMobileRegisterDevice(1, "userToken", who, fcmToken, "web")
  \/ \E userId \in Users, fcmToken \in Tokens :
       RegisterDevice(userId, fcmToken, "android")
  \/ \E oldToken \in Tokens, newToken \in Tokens : UpdateFcmToken(oldToken, newToken)
  \/ \E userId \in Users, deviceId \in DeviceIds : RemoveDevice(userId, deviceId)
  \/ \E d \in DeviceIds : PushStart(1, d)
  \/ PushSucceed(1)
  \/ PushFail(1)
  \/ MarkWrite(1)

SpecRegister == InitRegister /\ [][NextRegister]_vars

\* -------------------------------------------------- life-or-death alert loop
\* the user's active web devices, as sendLoopNotification filters them
WebDevices(dv, userId) ==
  {d \in ActiveDevices(dv, userId) : dv[d].platform = "web"}

\* sendLoopNotification, run by the alert's interval: reload the alert; stop
\* the loop when it is acknowledged or has reached maxNotifications
LoopTickRead(i, a) ==
  /\ running
  /\ i \in DOMAIN activeAlerts
  /\ activeAlerts[i].loop
  /\ loops[i][a].pc = "idle"
  /\ IF activeAlerts[i].acknowledged
        \/ activeAlerts[i].notificationsSent >= MaxNotifications
     THEN /\ activeAlerts' = [activeAlerts EXCEPT ![i].loop = FALSE]
          /\ UNCHANGED loops
     ELSE /\ loops' = [loops EXCEPT ![i][a] =
                         [pc |-> "devices",
                          read |-> activeAlerts[i].notificationsSent]]
          /\ UNCHANGED activeAlerts
  /\ UNCHANGED << running, now, horizon, wsState, clients, sessions,
                  heartbeatTimers, task, users, hubs, rateLimits, connects,
                  timeoutPushes, timeoutLogs, lastBeat, armedBy, closedAt,
                  graceReconnect, focus, rateSeen, regen, devices, jobs,
                  boot, fanout, calls, legacy, sdk, observe, evt, out >>

\* await deviceService.getUserDevices: return when there is no web device
LoopTickDevices(i, a) ==
  /\ loops[i][a].pc = "devices"
  /\ loops' = IF WebDevices(devices, activeAlerts[i].userId) = {}
              THEN [loops EXCEPT ![i][a] = NoLoop]
              ELSE [loops EXCEPT ![i][a].pc = "update"]
  /\ UNCHANGED << running, now, horizon, wsState, clients, sessions,
                  heartbeatTimers, task, users, hubs, activeAlerts,
                  rateLimits, connects, timeoutPushes, timeoutLogs, lastBeat,
                  armedBy, closedAt, graceReconnect, focus, rateSeen, regen,
                  devices, jobs, boot, fanout, calls, legacy, sdk, observe,
                  evt, out >>

\* await prisma.activeAlert.update: notificationsSent = the count read + 1
LoopTickUpdate(i, a) ==
  /\ loops[i][a].pc = "update"
  /\ activeAlerts' = [activeAlerts EXCEPT ![i].notificationsSent = loops[i][a].read + 1]
  /\ loops' = [loops EXCEPT ![i][a].pc = "send"]
  /\ UNCHANGED << running, now, horizon, wsState, clients, sessions,
                  heartbeatTimers, task, users, hubs, rateLimits, connects,
                  timeoutPushes, timeoutLogs, lastBeat, armedBy, closedAt,
                  graceReconnect, focus, rateSeen, regen, devices, jobs,
                  boot, fanout, calls, legacy, sdk, observe, evt, out >>

\* fcmService.sendCriticalAlert to each web device
LoopTickSend(i, a) ==
  /\ loops[i][a].pc = "send"
  /\ loops' = [loops EXCEPT ![i][a] = NoLoop]
  /\ evt' = Event("loop_push", 0, activeAlerts[i].userId, i, "ok")
  /\ out' = Emit("loop_push", {Push(activeAlerts[i].userId, "critical_alert")})
  /\ UNCHANGED << running, now, horizon, wsState, clients, sessions,
                  heartbeatTimers, task, users, hubs, activeAlerts,
                  rateLimits, connects, timeoutPushes, timeoutLogs, lastBeat,
                  armedBy, closedAt, graceReconnect, focus, rateSeen, regen,
                  devices, jobs, boot, fanout, calls, legacy, sdk, observe >>

\* a life-or-death user's producer times out, the alert loop runs and the
\* user acknowledges
InitLoop ==
  InitState /\ horizon = heartbeatTimeout /\ focus = {} /\ observe = {"loop_push"}

NextLoop ==
  \/ \E s \in Sockets : Accept(s)
  \/ \E s \in Sockets : HandleConnect(s, "H1", "A")
  \/ \E c \in Sockets : TimerFire(c)
  \/ \E c \in Sockets : TimeoutStep(c)
  \/ Tick(TickMs)
  \/ RegisterDevice("A", "t1", "web")
  \/ \E i \in AlertIds : AcknowledgeAlert(i, "A")
  \/ \E i \in AlertIds : LoopTickRead(i, 1)
  \/ \E i \in AlertIds : LoopTickDevices(i, 1)
  \/ \E i \in AlertIds : LoopTickUpdate(i, 1)
  \/ \E i \in AlertIds : LoopTickSend(i, 1)

SpecLoop == InitLoop /\ [][NextLoop]_vars

\* one callback of the alert's interval, from its start to its return
sendLoopNotification(i) ==
  \/ LoopTickRead(i, 1)
  \/ LoopTickDevices(i, 1)
  \/ LoopTickUpdate(i, 1)
  \/ LoopTickSend(i, 1)

\* fair ticking: an installed interval keeps firing and every store call and
\* send of a callback returns
SpecLoopFair ==
  SpecLoop /\ \A i \in AlertIds : WF_vars(sendLoopNotification(i))

\* ------------------------------------------------------------- quiet hours
\* userService.updateSettings with the quiet-hours fields
UpdateSettings(userId, enabled, start, end) ==
  /\ running
  /\ users' = [users EXCEPT ![userId].quietHoursEnabled = enabled,
                            ![userId].quietHoursStart = start,
                            ![userId].quietHoursEnd = end]
  /\ evt' = Event("update_settings", 0, userId, 0, "ok")
  /\ out' = {}
  /\ UNCHANGED << running, now, horizon, wsState, clients, sessions,
                  heartbeatTimers, task, hubs, activeAlerts, rateLimits,
                  connects, timeoutPushes, timeoutLogs, lastBeat, armedBy,
                  closedAt, graceReconnect, focus, rateSeen, regen, devices,
                  jobs, loops, boot, fanout, calls, legacy, sdk, observe >>

\* sessionService.isQuietHours(user) at a local minute of the day
QuietCheck(userId, minute) ==
  /\ running
  /\ evt' = Event("isQuietHours", 0, userId, minute,
                  IF isQuietHours(users[userId], minute) THEN "true" ELSE "false")
  /\ out' = {}
  /\ UNCHANGED << running, now, horizon, wsState, clients, sessions,
                  heartbeatTimers, task, users, hubs, activeAlerts,
                  rateLimits, connects, timeoutPushes, timeoutLogs, lastBeat,
                  armedBy, closedAt, graceReconnect, focus, rateSeen, regen,
                  devices, jobs, loops, boot, fanout, calls, legacy, sdk,
                  observe >>

\* isQuietHours over the settings a user may store and the minutes of a day
InitQuiet ==
  InitState /\ horizon = 0 /\ focus = {} /\ observe = {"isQuietHours"}

NextQuiet ==
  \/ \E enabled \in BOOLEAN, start \in TimeSamples, end \in TimeSamples :
       UpdateSettings("A", enabled, start, end)
  \/ \E userId \in Users, minute \in ClockSamples : QuietCheck(userId, minute)

SpecQuiet == InitQuiet /\ [][NextQuiet]_vars

\* ----------------------------------------------------------------- startup
\* a start that leaves the session table as it found it
cleanupNothing(ss) == ss

\* sessionService.cleanupStaleSessions: updateMany on every ACTIVE session
cleanupStaleSessions(ss) ==
  [c \in Sockets |->
     IF ss[c].status = "ACTIVE"
     THEN [ss[c] EXCEPT !.status = "DISCONNECTED",
                        !.disconnectReason = "SERVER_SHUTDOWN",
                        !.disconnectMessage = "Server restarted"]
     ELSE ss[c]]

\* the row a previous run left under a client id
StaleRow(c, status) ==
  LET created == createSession([s \in Sockets |-> NoSession], "A", "H1", c, 0)
      row == [created[c] EXCEPT !.id = c]
  IN IF status = "ACTIVE" THEN row
     ELSE IF status = "DISCONNECTED"
     THEN [row EXCEPT !.status = "DISCONNECTED", !.disconnectReason = "MANUAL",
                      !.disconnectMessage = "Script disconnected"]
     ELSE [row EXCEPT !.status = "TIMEOUT", !.disconnectReason = "TIMEOUT",
                      !.disconnectMessage = "Heartbeat timeout", !.alertSent = TRUE]

\* start(): await prisma.$connect()
BootConnect ==
  /\ boot.pc = "start"
  /\ boot' = [boot EXCEPT !.pc = "connected"]
  /\ UNCHANGED << running, now, horizon, wsState, clients, sessions,
                  heartbeatTimers, task, users, hubs, activeAlerts,
                  rateLimits, connects, timeoutPushes, timeoutLogs, lastBeat,
                  armedBy, closedAt, graceReconnect, focus, rateSeen, regen,
                  devices, jobs, loops, fanout, calls, legacy, sdk, observe,
                  evt, out >>

\* start(): await sessionService.cleanupStaleSessions()
BootCleanup ==
  /\ boot.pc = "connected"
  /\ sessions' = cleanupStaleSessions(sessions)
  /\ boot' = [boot EXCEPT !.pc = "cleaned"]
  /\ UNCHANGED << running, now, horizon, wsState, clients, heartbeatTimers,
                  task, users, hubs, activeAlerts, rateLimits, connects,
                  timeoutPushes, timeoutLogs, lastBeat, armedBy, closedAt,
                  graceReconnect, focus, rateSeen, regen, devices, jobs,
                  loops, fanout, calls, legacy, sdk, observe, evt, out >>

\* start(): redis, firebase, restoreActiveLoops (no alert is left to restore)
BootServices ==
  /\ boot.pc = "cleaned"
  /\ boot' = [boot EXCEPT !.pc = "services"]
  /\ UNCHANGED << running, now, horizon, wsState, clients, sessions,
                  heartbeatTimers, task, users, hubs, activeAlerts,
                  rateLimits, connects, timeoutPushes, timeoutLogs, lastBeat,
                  armedBy, closedAt, graceReconnect, focus, rateSeen, regen,
                  devices, jobs, loops, fanout, calls, legacy, sdk, observe,
                  evt, out >>

\* start(): websocketServiceV2.initialize(server)
BootInitialize ==
  /\ boot.pc = "services"
  /\ boot' = [boot EXCEPT !.pc = "initialized"]
  /\ UNCHANGED << running, now, horizon, wsState, clients, sessions,
                  heartbeatTimers, task, users, hubs, activeAlerts,
                  rateLimits, connects, timeoutPushes, timeoutLogs, lastBeat,
                  armedBy, closedAt, graceReconnect, focus, rateSeen, regen,
                  devices, jobs, loops, fanout, calls, legacy, sdk, observe,
                  evt, out >>

\* start(): server.listen; from here on sockets are accepted
BootListen ==
  /\ boot.pc = "initialized"
  /\ boot' = [boot EXCEPT !.pc = "listening"]
  /\ running' = TRUE
  /\ UNCHANGED << now, horizon, wsState, clients, sessions, heartbeatTimers,
                  task, users, hubs, activeAlerts, rateLimits, connects,
                  timeoutPushes, timeoutLogs, lastBeat, armedBy, closedAt,
                  graceReconnect, focus, rateSeen, regen, devices, jobs,
                  loops, fanout, calls, legacy, sdk, observe, evt, out >>

\* a connect on a socket of this run (its client id is new to the table)
ConnectFresh(s, userToken) ==
  s \notin boot.stale /\ sessions[s].status \in {"NONE", "ACTIVE"}
  /\ HandleConnect(s, "H1", userToken)

\* a restart over the session table a previous run left behind
InitBoot ==
  /\ InitMemory
  /\ running = FALSE
  /\ hubs = [InitHubs EXCEPT !["H1"].totalConnections = 1]
  /\ \E k \in 0..MaxSockets :
       \E st \in [1..k -> {"ACTIVE", "DISCONNECTED", "TIMEOUT"}] :
         /\ sessions = [c \in Sockets |->
                          IF c <= k THEN StaleRow(c, st[c]) ELSE NoSession]
         /\ boot = [pc |-> "start",
                    stale |-> {c \in 1..k : st[c] = "ACTIVE"}, old |-> {}]
  /\ activeAlerts = << >>
  /\ horizon = heartbeatTimeout /\ focus = {} /\ observe = {}

NextBoot ==
  \/ BootConnect
  \/ BootCleanup
  \/ BootServices
  \/ BootInitialize
  \/ BootListen
  \/ \E s \in Sockets : Accept(s)
  \/ \E s \in Sockets : HandleClose(s)
  \/ \E s \in Sockets, userToken \in Users : ConnectFresh(s, userToken)
  \/ \E s \in Sockets : HandleDisconnect(s)

SpecBoot == InitBoot /\ [][NextBoot]_vars

\* ------------------------------------------------- fan-out across handlers
\* ws.on('message') starts handleMessage per frame and does not wait for it
ProducerFrames == {"status", "log", "notify", "alert", "disconnect"}

\* the event a producer frame fans out
FanoutType(type) ==
  CASE type = "status" -> "status_update"
    [] type = "log" -> "log"
    [] type = "notify" -> "notification"
    [] type = "alert" -> "critical_alert"
    [] type = "disconnect" -> "session_ended"

\* the handler awaits the store before notifyMobileApps: updateStatus,
\* getSessionById, disconnectSession; handleLog and handleNotify fan out first
AwaitsBeforeFanout(type) == type \in {"status", "alert", "disconnect"}

\* notifyMobileApps as the consumers' sockets see it: frame n is written to
\* every authenticated consumer socket of the user that is OPEN
Written(inbox, cl, userId, n) ==
  [c \in Sockets |->
     IF cl[c].type = "mobile" /\ cl[c].userId = userId /\ cl[c].authenticated
        /\ wsState[c] = "open"
     THEN Append(inbox[c], n) ELSE inbox[c]]

\* the pushes a handler adds to its fan-out
FramePush(userId, type) ==
  IF type = "notify" THEN {Push(userId, "notification")}
  ELSE IF type = "alert" THEN {Push(userId, "critical")}
  ELSE {}

\* handleMessage up to the handler's first await (or to its end)
ProducerFrame(s, type) ==
  /\ Receiving(s)
  /\ requireAuth(clients[s], "roblox") = "null"
  /\ type \in RatedClasses => rateAllowed(rateLimits, s, type, now)
  /\ Len(fanout.sent) < MaxFrames
  /\ rateLimits' = IF type \in RatedClasses
                   THEN checkRateLimit(rateLimits, s, type, now) ELSE rateLimits
  /\ heartbeatTimers' = IF type = "disconnect"
                        THEN stopHeartbeatMonitor(heartbeatTimers, s)
                        ELSE heartbeatTimers
  /\ lastBeat' = IF type = "disconnect" THEN [lastBeat EXCEPT ![s] = -1] ELSE lastBeat
  /\ armedBy' = IF type = "disconnect" THEN ArmedBy("none", s) ELSE armedBy
  /\ LET n == Len(fanout.sent) + 1
     IN IF AwaitsBeforeFanout(type)
        THEN /\ fanout' = [fanout EXCEPT
                  !.sent = Append(@, type),
                  !.pending = @ \cup {[n |-> n, type |-> type, sock |-> s]}]
             /\ out' = {}
        ELSE /\ fanout' = [fanout EXCEPT
                  !.sent = Append(@, type),
                  !.inbox = Written(@, clients, clients[s].userId, n)]
             /\ out' = Emit(type, notifyMobileApps(clients, clients[s].userId,
                                                   FanoutType(type))
                                  \cup FramePush(clients[s].userId, type))
  /\ evt' = Event(type, s, "null", 0, "null")
  /\ UNCHANGED << running, now, horizon, wsState, clients, sessions, task,
                  users, hubs, activeAlerts, connects, timeoutPushes,
                  timeoutLogs, closedAt, graceReconnect, focus, rateSeen,
                  regen, devices, jobs, loops, boot, calls, legacy, sdk,
                  observe >>

\* the awaited store call of a handler resolves and the handler goes on:
\* notifyMobileApps, then the push or the ack and ws.close(); client.userId
\* is read from the socket's client object now, after the await
FanoutFinish(n) ==
  \E p \in fanout.pending :
  /\ p.n = n
  /\ sessions' = IF p.type = "status" THEN updateStatus(sessions, p.sock, "farming")
                 ELSE IF p.type = "disconnect"
                 THEN disconnectSession(sessions, p.sock, "MANUAL", "Script disconnected")
                 ELSE sessions
  /\ fanout' = [fanout EXCEPT !.pending = @ \ {p},
                              !.inbox = Written(@, clients, clients[p.sock].userId, p.n)]
  /\ out' = Emit(p.type, notifyMobileApps(clients, clients[p.sock].userId, FanoutType(p.type))
                         \cup FramePush(clients[p.sock].userId, p.type)
                         \cup (IF p.type = "disconnect"
                               THEN send(p.sock, "disconnected", "null") ELSE {}))
  /\ wsState' = IF p.type = "disconnect" THEN wsClose(wsState, p.sock) ELSE wsState
  /\ evt' = Event(p.type, p.sock, "null", 0, "null")
  /\ UNCHANGED << running, now, horizon, clients, heartbeatTimers, task,
                  users, hubs, activeAlerts, rateLimits, connects,
                  timeoutPushes, timeoutLogs, lastBeat, armedBy, closedAt,
                  graceReconnect, focus, rateSeen, regen, devices, jobs,
                  loops, boot, calls, legacy, sdk, observe >>

InitOrder == InitState /\ horizon = heartbeatTimeout /\ focus = {} /\ observe = {}

NextOrder ==
  \/ \E s \in Sockets : Accept(s)
  \/ \E s \in Sockets : HandleConnect(s, "H1", "A")
  \/ \E s \in Sockets : HandleMobileAuthenticate(s, "A")
  \/ \E s \in Sockets, type \in ProducerFrames : ProducerFrame(s, type)
  \/ \E n \in 1..MaxFrames : FanoutFinish(n)

SpecOrder == InitOrder /\ [][NextOrder]_vars

\* ------------------------------------------------- startup: alert loops
\* restoreActiveLoops' findMany: unacknowledged alerts whose notificationsSent
\* is below maxNotifications
Restorable(alerts) ==
  {i \in DOMAIN alerts : ~alerts[i].acknowledged
                         /\ alerts[i].notificationsSent < MaxNotifications}

\* the loop over the alerts found: startLoop for an alert younger than ten
\* minutes, acknowledged = true for an older one (old: the older ones)
restoreActiveLoops(alerts, old) ==
  [i \in DOMAIN alerts |->
     IF i \notin Restorable(alerts) THEN alerts[i]
     ELSE IF i \in old THEN [alerts[i] EXCEPT !.acknowledged = TRUE]
     ELSE [alerts[i] EXCEPT !.loop = TRUE]]

\* start(): await alertLoopService.restoreActiveLoops(). The where clause
\* calls prisma.raw on the client: either the call fails and the catch of
\* restoreActiveLoops swallows the error, or the query runs as written
BootRestore(thrown) ==
  /\ boot.pc = "cleaned"
  /\ activeAlerts' = IF thrown THEN activeAlerts
                     ELSE restoreActiveLoops(activeAlerts, boot.old)
  /\ boot' = [boot EXCEPT !.pc = "services"]
  /\ UNCHANGED << running, now, horizon, wsState, clients, sessions,
                  heartbeatTimers, task, users, hubs, rateLimits, connects,
                  timeoutPushes, timeoutLogs, lastBeat, armedBy, closedAt,
                  graceReconnect, focus, rateSeen, regen, devices, jobs,
                  loops, fanout, calls, legacy, sdk, observe, evt, out >>

\* the alerts a previous run left in the store; none has an interval in the
\* new process
StoredAlerts ==
  UNION { [1..k -> [userId : Users, sessionId : {1},
                    notificationsSent : 1..MaxNotifications,
                    acknowledged : BOOLEAN, loop : {FALSE}]] : k \in 0..MaxAlerts }

InitRestore ==
  /\ InitMemory
  /\ running = FALSE
  /\ hubs = InitHubs
  /\ sessions = [s \in Sockets |-> NoSession]
  /\ activeAlerts \in StoredAlerts
  /\ \E old \in SUBSET (1..MaxAlerts) :
       /\ old \subseteq DOMAIN activeAlerts
       /\ boot = [pc |-> "start", stale |-> {}, old |-> old]
  /\ horizon = 0 /\ focus = {} /\ observe = {}

NextRestore ==
  \/ BootConnect
  \/ BootCleanup
  \/ \E thrown \in BOOLEAN : BootRestore(thrown)
  \/ BootInitialize
  \/ BootListen
  \/ \E i \in AlertIds, userId \in Users : AcknowledgeAlert(i, userId)

SpecRestore == InitRestore /\ [][NextRestore]_vars

\* ------------------------------------------- connect against a suspension
\* handleConnect up to createSession: validateApiKey and validateUserToken
\* have resolved; a failure ends the handler as in HandleConnect
ConnectValidate(s, hubKey, userToken) ==
  /\ calls.connect[s].pc = "idle"
  /\ IF ConnectError(hubKey, userToken) # "null"
     THEN HandleConnect(s, hubKey, userToken)
     ELSE /\ Receiving(s)
          /\ calls' = [calls EXCEPT !.connect[s] =
                         [pc |-> "create", hubId |-> hubKey, userId |-> userToken]]
          /\ evt' = Event("connect", s, userToken, 0, "null")
          /\ out' = {}
          /\ UNCHANGED << running, now, horizon, wsState, clients, sessions,
                          heartbeatTimers, task, users, hubs, activeAlerts,
                          rateLimits, connects, timeoutPushes, timeoutLogs,
                          lastBeat, armedBy, closedAt, graceReconnect, focus,
                          rateSeen, regen, devices, jobs, loops, boot,
                          fanout, legacy, sdk, observe >>

\* handleConnect from createSession on, with the hub and the user it validated
ConnectCreate(s) ==
  /\ calls.connect[s].pc = "create"
  /\ LET hubId == calls.connect[s].hubId
         userId == calls.connect[s].userId
         ss == createSession(sessions, userId, hubId, s, now)
         cl == [clients EXCEPT ![s] =
                  [type |-> "roblox", userId |-> userId, hubId |-> hubId,
                   sessionId |-> ss[s].id, authenticated |-> TRUE]]
     IN /\ hubs[hubId].totalConnections < MaxConnects
        /\ now + heartbeatTimeout <= horizon
        /\ sessions' = ss
        /\ hubs' = [hubs EXCEPT ![hubId].totalConnections = @ + 1]
        /\ clients' = cl
        /\ heartbeatTimers' = startHeartbeatMonitor(heartbeatTimers, s, ss[s].id, userId, now)
        /\ lastBeat' = [lastBeat EXCEPT ![s] = now]
        /\ armedBy' = ArmedBy("start", s)
        /\ connects' = [connects EXCEPT ![s] = @ + 1]
        /\ graceReconnect' =
             [c \in Sockets |-> graceReconnect[c] \/ c \in Reconnects(s, hubId, userId)]
        /\ out' = Emit("connect", send(s, "authenticated", "null")
                       \cup notifyMobileApps(cl, userId, "session_started"))
        /\ evt' = Event("connect", s, userId, 0, "null")
  /\ calls' = [calls EXCEPT !.connect[s] = NoConnect]
  /\ UNCHANGED << running, now, horizon, wsState, task, users, activeAlerts,
                  rateLimits, timeoutPushes, timeoutLogs, closedAt, focus,
                  rateSeen, regen, devices, jobs, loops, boot, fanout,
                  legacy, sdk, observe >>

\* suspendHub: await prisma.session.updateMany on the hub's ACTIVE sessions
SuspendSessions(hubId) ==
  /\ running
  /\ calls.suspend.pc = "idle"
  /\ sessions' = suspendHub(sessions, hubId)
  /\ calls' = [calls EXCEPT !.suspend = [pc |-> "update", hubId |-> hubId]]
  /\ evt' = Event("suspend_hub", 0, hubId, 0, "ok")
  /\ out' = {}
  /\ UNCHANGED << running, now, horizon, wsState, clients, heartbeatTimers,
                  task, users, hubs, activeAlerts, rateLimits, connects,
                  timeoutPushes, timeoutLogs, lastBeat, armedBy, closedAt,
                  graceReconnect, focus, rateSeen, regen, devices, jobs,
                  loops, boot, fanout, legacy, sdk, observe >>

\* suspendHub: return prisma.hub.update to SUSPENDED
SuspendUpdate ==
  /\ calls.suspend.pc = "update"
  /\ hubs' = [hubs EXCEPT ![calls.suspend.hubId].status = "SUSPENDED"]
  /\ calls' = [calls EXCEPT !.suspend.pc = "returned"]
  /\ evt' = Event("suspend_hub", 0, calls.suspend.hubId, 0, "ok")
  /\ out' = {}
  /\ UNCHANGED << running, now, horizon, wsState, clients, sessions,
                  heartbeatTimers, task, users, activeAlerts, rateLimits,
                  connects, timeoutPushes, timeoutLogs, lastBeat, armedBy,
                  closedAt, graceReconnect, focus, rateSeen, regen, devices,
                  jobs, loops, boot, fanout, legacy, sdk, observe >>

InitSuspend == InitState /\ horizon = heartbeatTimeout /\ focus = {} /\ observe = {}

NextSuspend ==
  \/ \E s \in Sockets : Accept(s)
  \/ \E s \in Sockets : HandleClose(s)
  \/ \E s \in Sockets, hubKey \in {"H1", "missing"} : ConnectValidate(s, hubKey, "A")
  \/ \E s \in Sockets : ConnectCreate(s)
  \/ SuspendSessions("H1")
  \/ SuspendUpdate

SpecSuspend == InitSuspend /\ [][NextSuspend]_vars

\* --------------------------------------------------- shutdown, step by step
\* shutdown(): clearTimeout on every timer and heartbeatTimers.clear(); the
\* loop over this.clients follows in the same turn
ShutdownBegin ==
  /\ running
  /\ calls.shutdown.pc = "idle"
  /\ heartbeatTimers' = [c \in Sockets |-> NoTimer]
  /\ lastBeat' = [c \in Sockets |-> -1]
  /\ armedBy' = [c \in Sockets |-> "none"]
  /\ calls' = [calls EXCEPT !.shutdown = [pc |-> "loop", found |-> {}, at |-> 0]]
  /\ evt' = Event("shutdown", 0, "null", 0, "ok")
  /\ out' = {}
  /\ UNCHANGED << running, now, horizon, wsState, clients, sessions, task,
                  users, hubs, activeAlerts, rateLimits, connects,
                  timeoutPushes, timeoutLogs, closedAt, graceReconnect,
                  focus, rateSeen, regen, devices, jobs, loops, boot, fanout,
                  legacy, sdk, observe >>

\* one turn of the loop: a producer that has a session waits for
\* disconnectSession, any other socket is closed with 1001 at once; the Map
\* iterator also reaches the sockets added while the loop was waiting
ShutdownVisit(c) ==
  /\ calls.shutdown.pc = "loop"
  /\ InMap(c)
  /\ c \notin calls.shutdown.found
  /\ IF clients[c].type = "roblox" /\ clients[c].sessionId # 0
     THEN /\ calls' = [calls EXCEPT !.shutdown =
                         [pc |-> "await", found |-> @.found \cup {c}, at |-> c]]
          /\ UNCHANGED wsState
     ELSE /\ calls' = [calls EXCEPT !.shutdown.found = @ \cup {c}]
          /\ wsState' = wsClose(wsState, c)
  /\ evt' = Event("shutdown", c, "null", 0, "ok")
  /\ out' = {}
  /\ UNCHANGED << running, now, horizon, clients, sessions, heartbeatTimers,
                  task, users, hubs, activeAlerts, rateLimits, connects,
                  timeoutPushes, timeoutLogs, lastBeat, armedBy, closedAt,
                  graceReconnect, focus, rateSeen, regen, devices, jobs,
                  loops, boot, fanout, legacy, sdk, observe >>

\* disconnectSession has resolved: ws.close(1001) and on with the loop
ShutdownResume ==
  /\ calls.shutdown.pc = "await"
  /\ sessions' = disconnectSession(sessions, calls.shutdown.at,
                                   "SERVER_SHUTDOWN", "Server maintenance")
  /\ wsState' = wsClose(wsState, calls.shutdown.at)
  /\ calls' = [calls EXCEPT !.shutdown.pc = "loop", !.shutdown.at = 0]
  /\ evt' = Event("shutdown", calls.shutdown.at, "null", 0, "ok")
  /\ out' = {}
  /\ UNCHANGED << running, now, horizon, clients, heartbeatTimers, task,
                  users, hubs, activeAlerts, rateLimits, connects,
                  timeoutPushes, timeoutLogs, lastBeat, armedBy, closedAt,
                  graceReconnect, focus, rateSeen, regen, devices, jobs,
                  loops, boot, fanout, legacy, sdk, observe >>

\* the iterator is exhausted: this.clients.clear(); the SIGINT handler goes
\* on to server.close()
ShutdownEnd ==
  /\ calls.shutdown.pc = "loop"
  /\ \A c \in Sockets : InMap(c) => c \in calls.shutdown.found
  /\ clients' = [c \in Sockets |-> NoClient]
  /\ wsState' = [c \in Sockets |-> IF InMap(c) THEN "closed" ELSE wsState[c]]
  /\ running' = FALSE
  /\ calls' = [calls EXCEPT !.shutdown.pc = "done"]
  /\ evt' = Event("shutdown", 0, "null", 0, "ok")
  /\ out' = {}
  /\ UNCHANGED << now, horizon, sessions, heartbeatTimers, task, users, hubs,
                  activeAlerts, rateLimits, connects, timeoutPushes,
                  timeoutLogs, lastBeat, armedBy, closedAt, graceReconnect,
                  focus, rateSeen, regen, devices, jobs, loops, boot, fanout,
                  legacy, sdk, observe >>

\* the event loop runs other callbacks only while shutdown is not in a turn
\* of its own
OtherTurn == calls.shutdown.pc # "loop"

AcceptTurn(s) == OtherTurn /\ Accept(s)

ConnectValidateTurn(s) == OtherTurn /\ ConnectValidate(s, "H1", "A")

ConnectCreateTurn(s) == OtherTurn /\ ConnectCreate(s)

AuthenticateTurn(s) == OtherTurn /\ HandleMobileAuthenticate(s, "A")

InitShutdown == InitState /\ horizon = heartbeatTimeout /\ focus = {} /\ observe = {}

NextShutdown ==
  \/ \E s \in Sockets : AcceptTurn(s)
  \/ \E s \in Sockets : ConnectValidateTurn(s)
  \/ \E s \in Sockets : ConnectCreateTurn(s)
  \/ \E s \in Sockets : AuthenticateTurn(s)
  \/ ShutdownBegin
  \/ \E c \in Sockets : ShutdownVisit(c)
  \/ ShutdownResume
  \/ ShutdownEnd

SpecShutdown == InitShutdown /\ [][NextShutdown]_vars

\* ------------------------------------------- the connection-key router
\* POST /connections/generate: a fresh key is stored for the user
GenerateKey(k, userId) ==
  /\ k \notin legacy.issued
  /\ legacy' = [legacy EXCEPT !.keys[k] = userId, !.issued = @ \cup {k}]
  /\ UNCHANGED << running, now, horizon, wsState, clients, sessions,
                  heartbeatTimers, task, users, hubs, activeAlerts,
                  rateLimits, connects, timeoutPushes, timeoutLogs, lastBeat,
                  armedBy, closedAt, graceReconnect, focus, rateSeen, regen,
                  devices, jobs, loops, boot, fanout, calls, sdk, observe,
                  evt, out >>

\* wss.on('connection')
LegacyAccept(s) ==
  /\ legacy.clients[s].ws = "unused"
  /\ legacy' = [legacy EXCEPT !.clients[s].ws = "open"]
  /\ UNCHANGED << running, now, horizon, wsState, clients, sessions,
                  heartbeatTimers, task, users, hubs, activeAlerts,
                  rateLimits, connects, timeoutPushes, timeoutLogs, lastBeat,
                  armedBy, closedAt, graceReconnect, focus, rateSeen, regen,
                  devices, jobs, loops, boot, fanout, calls, sdk, observe,
                  evt, out >>

\* handleRobloxConnect up to its second await: getConnectionKey has resolved;
\* no user: error frame and ws.close(); else the client becomes a producer
connectReadsKey(lg, s, k) ==
  IF lg.keys[k] = "null"
  THEN [lg EXCEPT !.clients[s].ws = "closed"]
  ELSE [lg EXCEPT !.clients[s] = [@ EXCEPT !.type = "roblox", !.userId = lg.keys[k],
                                           !.key = k, !.pc = "store"]]

LegacyConnect(s, k) ==
  /\ legacy.clients[s].ws = "open"
  /\ legacy.clients[s].pc = "idle"
  /\ legacy' = connectReadsKey(legacy, s, k)
  /\ UNCHANGED << running, now, horizon, wsState, clients, sessions,
                  heartbeatTimers, task, users, hubs, activeAlerts,
                  rateLimits, connects, timeoutPushes, timeoutLogs, lastBeat,
                  armedBy, closedAt, graceReconnect, focus, rateSeen, regen,
                  devices, jobs, loops, boot, fanout, calls, sdk, observe,
                  evt, out >>

\* setActiveConnection has resolved; deadmanService.startMonitoring; the
\* handler awaits deleteConnectionKey
LegacyStore(s) ==
  /\ legacy.clients[s].pc = "store"
  /\ legacy' = [legacy EXCEPT !.clients[s].pc = "delete",
                              !.clients[s].monitored = TRUE,
                              !.deadman[s].conn = TRUE,
                              !.deadman[s].timer = "pending"]
  /\ UNCHANGED << running, now, horizon, wsState, clients, sessions,
                  heartbeatTimers, task, users, hubs, activeAlerts,
                  rateLimits, connects, timeoutPushes, timeoutLogs, lastBeat,
                  armedBy, closedAt, graceReconnect, focus, rateSeen, regen,
                  devices, jobs, loops, boot, fanout, calls, sdk, observe,
                  evt, out >>

\* deleteConnectionKey has resolved; the 'authenticated' frame is sent
LegacyDelete(s) ==
  /\ legacy.clients[s].pc = "delete"
  /\ legacy' = [legacy EXCEPT !.keys[legacy.clients[s].key] = "null",
                              !.clients[s].pc = "idle",
                              !.clients[s].authenticated = TRUE]
  /\ UNCHANGED << running, now, horizon, wsState, clients, sessions,
                  heartbeatTimers, task, users, hubs, activeAlerts,
                  rateLimits, connects, timeoutPushes, timeoutLogs, lastBeat,
                  armedBy, closedAt, graceReconnect, focus, rateSeen, regen,
                  devices, jobs, loops, boot, fanout, calls, sdk, observe,
                  evt, out >>

InitLegacy == InitState /\ horizon = 0 /\ focus = {} /\ observe = {}

NextLegacy ==
  \/ \E k \in ConnectionKeys, userId \in Users : GenerateKey(k, userId)
  \/ \E s \in Sockets : LegacyAccept(s)
  \/ \E s \in Sockets, k \in ConnectionKeys : LegacyConnect(s, k)
  \/ \E s \in Sockets : LegacyStore(s)
  \/ \E s \in Sockets : LegacyDelete(s)

SpecLegacy == InitLegacy /\ [][NextLegacy]_vars

\* ---------------------------------------------------------- producer SDK
SdkVersions == {"v2", "v3"}

QueueSize(k) == IF k.version = "v2" THEN legacyQueueSize ELSE maxQueueSize

\* send(data): with no socket a message that is not a heartbeat is appended
\* to messageQueue and the oldest is removed once the bound is exceeded
sdkSend(k, type) ==
  IF k.ws \/ type = "heartbeat" THEN k
  ELSE LET q == Append(k.messageQueue, [n |-> k.appended + 1, type |-> type])
       IN [k EXCEPT !.appended = @ + 1,
                    !.messageQueue = IF Len(q) > QueueSize(k) THEN Tail(q) ELSE q]

\* scheduleReconnect
scheduleReconnect(k) ==
  IF ~k.autoReconnect \/ (k.version = "v3" /\ k.isShuttingDown) THEN k
  ELSE IF (k.version = "v3" => k.maxReconnectAttempts > 0)
          /\ k.reconnectAttempts >= k.maxReconnectAttempts
  THEN [k EXCEPT !.reported = TRUE]
  ELSE [k EXCEPT !.reconnectAttempts = @ + 1, !.timers = @ + 1]

\* Afkty:Connect(); ok: the executor's WebSocket connect call succeeded
sdkConnect(k, ok) ==
  IF k.connected \/ (k.version = "v3" /\ k.isShuttingDown) THEN k
  ELSE IF ~ok THEN scheduleReconnect(k)
  ELSE [k EXCEPT !.ws = TRUE]

\* Afkty:Init(options), which ends in Connect()
SdkInit(version, autoReconnect, maxReconnectAttempts, ok) ==
  /\ sdk.version = "none"
  /\ sdk' = sdkConnect([sdk EXCEPT !.version = version,
                                   !.autoReconnect = autoReconnect,
                                   !.maxReconnectAttempts = maxReconnectAttempts], ok)
  /\ UNCHANGED << running, now, horizon, wsState, clients, sessions,
                  heartbeatTimers, task, users, hubs, activeAlerts,
                  rateLimits, connects, timeoutPushes, timeoutLogs, lastBeat,
                  armedBy, closedAt, graceReconnect, focus, rateSeen, regen,
                  devices, jobs, loops, boot, fanout, calls, legacy, observe,
                  evt, out >>

\* the script sends a message through the SDK
SdkSend(type) ==
  /\ sdk.version # "none"
  /\ sdk.appended < MaxSends
  /\ sdk' = sdkSend(sdk, type)
  /\ UNCHANGED << running, now, horizon, wsState, clients, sessions,
                  heartbeatTimers, task, users, hubs, activeAlerts,
                  rateLimits, connects, timeoutPushes, timeoutLogs, lastBeat,
                  armedBy, closedAt, graceReconnect, focus, rateSeen, regen,
                  devices, jobs, loops, boot, fanout, calls, legacy, observe,
                  evt, out >>

\* handleMessage: 'connected'
SdkConnected ==
  /\ sdk.ws /\ ~sdk.connected
  /\ sdk' = [sdk EXCEPT !.connected = TRUE]
  /\ UNCHANGED << running, now, horizon, wsState, clients, sessions,
                  heartbeatTimers, task, users, hubs, activeAlerts,
                  rateLimits, connects, timeoutPushes, timeoutLogs, lastBeat,
                  armedBy, closedAt, graceReconnect, focus, rateSeen, regen,
                  devices, jobs, loops, boot, fanout, calls, legacy, observe,
                  evt, out >>

\* handleMessage: 'authenticated' resets the attempt counter, starts the
\* heartbeat and flushes the queue
SdkAuthenticated ==
  /\ sdk.ws /\ sdk.connected /\ ~sdk.authenticated
  /\ sdk' = [sdk EXCEPT !.authenticated = TRUE, !.reconnectAttempts = 0,
                        !.messageQueue = << >>]
  /\ UNCHANGED << running, now, horizon, wsState, clients, sessions,
                  heartbeatTimers, task, users, hubs, activeAlerts,
                  rateLimits, connects, timeoutPushes, timeoutLogs, lastBeat,
                  armedBy, closedAt, graceReconnect, focus, rateSeen, regen,
                  devices, jobs, loops, boot, fanout, calls, legacy, observe,
                  evt, out >>

\* ws.OnClose
SdkOnClose ==
  /\ sdk.ws
  /\ sdk' = LET k == [sdk EXCEPT !.ws = FALSE, !.connected = FALSE,
                                 !.authenticated = FALSE]
            IN IF k.version = "v3" /\ k.isShuttingDown THEN k
               ELSE scheduleReconnect(k)
  /\ UNCHANGED << running, now, horizon, wsState, clients, sessions,
                  heartbeatTimers, task, users, hubs, activeAlerts,
                  rateLimits, connects, timeoutPushes, timeoutLogs, lastBeat,
                  armedBy, closedAt, graceReconnect, focus, rateSeen, regen,
                  devices, jobs, loops, boot, fanout, calls, legacy, observe,
                  evt, out >>

\* the task.delay callback of scheduleReconnect
SdkTimer(ok) ==
  /\ sdk.timers > 0
  /\ sdk' = LET k == [sdk EXCEPT !.timers = @ - 1]
            IN IF ~k.connected /\ ~(k.version = "v3" /\ k.isShuttingDown)
               THEN sdkConnect(k, ok) ELSE k
  /\ UNCHANGED << running, now, horizon, wsState, clients, sessions,
                  heartbeatTimers, task, users, hubs, activeAlerts,
                  rateLimits, connects, timeoutPushes, timeoutLogs, lastBeat,
                  armedBy, closedAt, graceReconnect, focus, rateSeen, regen,
                  devices, jobs, loops, boot, fanout, calls, legacy, observe,
                  evt, out >>

\* Afkty:Disconnect(): v2 closes its socket itself and clears _state; v3
\* sets isShuttingDown and leaves the close to a delayed task
SdkDisconnect ==
  /\ sdk.version # "none"
  /\ ~sdk.stopped
  /\ sdk' = IF sdk.version = "v2"
            THEN [sdk EXCEPT !.autoReconnect = FALSE, !.stopped = TRUE,
                             !.ws = FALSE, !.connected = FALSE,
                             !.authenticated = FALSE]
            ELSE [sdk EXCEPT !.autoReconnect = FALSE, !.stopped = TRUE,
                             !.isShuttingDown = TRUE]
  /\ UNCHANGED << running, now, horizon, wsState, clients, sessions,
                  heartbeatTimers, task, users, hubs, activeAlerts,
                  rateLimits, connects, timeoutPushes, timeoutLogs, lastBeat,
                  armedBy, closedAt, graceReconnect, focus, rateSeen, regen,
                  devices, jobs, loops, boot, fanout, calls, legacy, observe,
                  evt, out >>

InitSdk == InitState /\ horizon = 0 /\ focus = {} /\ observe = {}

\* the queue of a script whose socket is gone
NextQueue ==
  \/ \E version \in SdkVersions, ok \in BOOLEAN : SdkInit(version, TRUE, MaxAttempts, ok)
  \/ \E type \in {"status", "heartbeat"} : SdkSend(type)
  \/ SdkConnected
  \/ SdkAuthenticated
  \/ SdkOnClose

SpecQueue == InitSdk /\ [][NextQueue]_vars

\* connecting, losing the socket, retrying and stopping
NextReconnect ==
  \/ \E version \in SdkVersions, autoReconnect \in BOOLEAN,
        maxReconnectAttempts \in 1..MaxAttempts, ok \in BOOLEAN :
       SdkInit(version, autoReconnect, maxReconnectAttempts, ok)
  \/ SdkConnected
  \/ SdkAuthenticated
  \/ SdkOnClose
  \/ \E ok \in BOOLEAN : SdkTimer(ok)
  \/ SdkDisconnect

SpecReconnect == InitSdk /\ [][NextReconnect]_vars

\* ------------------------------------------- the timeout path, store failing
\* a handleTimeout whose createLog failure would end the handler
TimeoutAlertLogAborts(c) ==
  /\ task[c].pc = "alert"
  /\ task' = [task EXCEPT ![c] = IdleTask]
  /\ evt' = Event("timeout_alert", c, "null", 0, "failed")
  /\ out' = {}
  /\ UNCHANGED << running, now, horizon, wsState, clients, sessions,
                  heartbeatTimers, users, hubs, activeAlerts, rateLimits,
                  connects, timeoutPushes, timeoutLogs, lastBeat, armedBy,
                  closedAt, graceReconnect, focus, rateSeen, regen, devices,
                  jobs, loops, boot, fanout, calls, legacy, sdk, observe >>

\* outside quiet hours with the SessionLog write failing: createLog catches
\* the error and returns null; sendCriticalAlertToUser follows
TimeoutAlertLogFails(c) ==
  /\ task[c].pc = "alert"
  /\ timeoutPushes' = [timeoutPushes EXCEPT ![c] = @ + 1]
  /\ task' = [task EXCEPT ![c].pc =
                IF task[c].lod /\ users[task[c].userId].lifeOrDeathMode
                THEN "loopFind" ELSE "update"]
  /\ evt' = Event("timeout_alert", c, "null", 0, "log_failed")
  /\ out' = Emit("timeout_alert", {Push(task[c].userId, "critical")})
  /\ UNCHANGED << running, now, horizon, wsState, clients, sessions,
                  heartbeatTimers, users, hubs, activeAlerts, rateLimits,
                  connects, timeoutLogs, lastBeat, armedBy, closedAt,
                  graceReconnect, focus, rateSeen, regen, devices, jobs,
                  loops, boot, fanout, calls, legacy, sdk, observe >>

\* handleTimeout's final session.update rejects: the error leaves
\* handleTimeout and triggerDeadManSwitch, the row and the socket stay
TimeoutUpdateFails(c) ==
  /\ task[c].pc = "update"
  /\ task' = [task EXCEPT ![c] = IdleTask]
  /\ evt' = Event("timeout_update", c, "null", 0, "failed")
  /\ out' = {}
  /\ UNCHANGED << running, now, horizon, wsState, clients, sessions,
                  heartbeatTimers, users, hubs, activeAlerts, rateLimits,
                  connects, timeoutPushes, timeoutLogs, lastBeat, armedBy,
                  closedAt, graceReconnect, focus, rateSeen, regen, devices,
                  jobs, loops, boot, fanout, calls, legacy, sdk, observe >>

InitFail == Init

NextFail ==
  \/ \E s \in Sockets : Accept(s)
  \/ \E s \in Sockets : HandleConnect(s, "H1", "A")
  \/ \E s \in Sockets : HandleDisconnect(s)
  \/ \E c \in Sockets : TimerFire(c)
  \/ \E c \in Sockets : TimeoutStep(c)
  \/ \E c \in Sockets : TimeoutAlertLogFails(c)
  \/ \E c \in Sockets : TimeoutUpdateFails(c)
  \/ Tick(TickMs)

SpecFail == InitFail /\ [][NextFail]_vars

\* ----------------------------------------------- alert loop, ticks overlap
\* the interval fires every 10 s whether or not the previous callback has
\* returned from its store calls and sends
InitOverlap ==
  InitState /\ horizon = heartbeatTimeout /\ focus = {} /\ observe = {"loop_push"}

NextOverlap ==
  \/ Accept(1)
  \/ HandleConnect(1, "H1", "A")
  \/ TimerFire(1)
  \/ TimeoutStep(1)
  \/ Tick(TickMs)
  \/ RegisterDevice("A", "t1", "web")
  \/ \E i \in AlertIds, a \in TickSlots : LoopTickRead(i, a)
  \/ \E i \in AlertIds, a \in TickSlots : LoopTickDevices(i, a)
  \/ \E i \in AlertIds, a \in TickSlots : LoopTickUpdate(i, a)
  \/ \E i \in AlertIds, a \in TickSlots : LoopTickSend(i, a)

SpecOverlap == InitOverlap /\ [][NextOverlap]_vars

\* --------------------------------------------------- acknowledge, refused
\* acknowledgeAlert when findFirst({id, userId, acknowledged: false}) finds
\* no row: the route answers 404 with the service's error text
AcknowledgeAlertFails(i, userId) ==
  /\ running
  /\ ~(/\ i \in DOMAIN activeAlerts
       /\ activeAlerts[i].userId = userId
       /\ ~activeAlerts[i].acknowledged)
  /\ evt' = Event("acknowledge", 0, userId, i, "Alert not found or already acknowledged")
  /\ out' = {}
  /\ UNCHANGED << running, now, horizon, wsState, clients, sessions,
                  heartbeatTimers, task, users, hubs, activeAlerts,
                  rateLimits, connects, timeoutPushes, timeoutLogs, lastBeat,
                  armedBy, closedAt, graceReconnect, focus, rateSeen, regen,
                  devices, jobs, loops, boot, fanout, calls, legacy, sdk,
                  observe >>

InitAck ==
  InitState /\ horizon = heartbeatTimeout /\ focus = {} /\ observe = {"acknowledge"}

NextAck ==
  \/ \E s \in Sockets : Accept(s)
  \/ \E s \in Sockets : HandleConnect(s, "H1", "A")
  \/ \E c \in Sockets : TimerFire(c)
  \/ \E c \in Sockets : TimeoutStep(c)
  \/ Tick(TickMs)
  \/ \E i \in AlertIds, userId \in Users : AcknowledgeAlert(i, userId)
  \/ \E i \in AlertIds, userId \in Users : AcknowledgeAlertFails(i, userId)

SpecAck == InitAck /\ [][NextAck]_vars

\* ------------------------------------------ heartbeat, store update rejects
\* handleHeartbeat when prisma.session.update rejects (no row matches
\* wsClientId, or the store fails): the timer has been reset, the rejection
\* leaves handleHeartbeat before its pong, and handleMessage's catch sends
\* INVALID_MESSAGE
HeartbeatUpdateFails(s) ==
  /\ Receiving(s)
  /\ clients[s].authenticated /\ clients[s].type = "roblox"
  /\ clients[s].sessionId # 0
  /\ heartbeatTimers[s].state # "none" => now + heartbeatTimeout <= horizon
  /\ heartbeatTimers' = resetHeartbeatMonitor(heartbeatTimers, s, now)
  /\ lastBeat' = [lastBeat EXCEPT ![s] =
                    IF heartbeatTimers[s].state # "none" THEN now ELSE @]
  /\ armedBy' = IF heartbeatTimers[s].state # "none"
                THEN ArmedBy("reset", s) ELSE armedBy
  /\ evt' = Event("heartbeat", s, "null", 0, "INVALID_MESSAGE")
  /\ out' = Emit("heartbeat", sendError(s, "INVALID_MESSAGE"))
  /\ UNCHANGED << running, now, horizon, wsState, clients, sessions, task,
                  users, hubs, activeAlerts, rateLimits, connects,
                  timeoutPushes, timeoutLogs, closedAt, graceReconnect,
                  focus, rateSeen, regen, devices, jobs, loops, boot, fanout,
                  calls, legacy, sdk, observe >>

InitBeat == InitState /\ horizon = MaxTime /\ focus = {} /\ observe = {"heartbeat"}

NextBeat ==
  \/ \E s \in Sockets : Accept(s)
  \/ \E s \in Sockets : HandleConnect(s, "H1", "A")
  \/ \E s \in Sockets : HandleHeartbeat(s)
  \/ \E s \in Sockets : HeartbeatUpdateFails(s)
  \/ \E c \in Sockets : TimerFire(c)
  \/ \E c \in Sockets : TimeoutStep(c)
  \/ Tick(TickMs)

SpecBeat == InitBeat /\ [][NextBeat]_vars

\* ------------------------------------------------- fan-out to the consumers
\* producers and consumers of both users on the sockets; a run sends the
\* rated frames of one socket and class
InitFanout ==
  /\ InitState /\ horizon = heartbeatTimeout
  /\ focus \in {{k} : k \in Sockets \X RatedClasses}
  /\ observe = FrameTypes \cup {"close"}

NextFanout ==
  \/ \E s \in Sockets : Accept(s)
  \/ \E s \in Sockets : HandleClose(s)
  \/ \E s \in Sockets, userToken \in Users : HandleConnect(s, "H1", userToken)
  \/ \E s \in Sockets : HandleDisconnect(s)
  \/ \E s \in Sockets : HandleStatus(s, "farming")
  \/ \E s \in Sockets : HandleLog(s)
  \/ \E s \in Sockets, complete \in BOOLEAN : HandleNotify(s, complete)
  \/ \E s \in Sockets : HandleAlert(s)
  \/ \E s \in Sockets, jwt \in Users : HandleMobileAuthenticate(s, jwt)
  \/ \E s \in Sockets, who \in Users : HandleMobileRegister(s, "userId", who)

SpecFanout == InitFanout /\ [][NextFanout]_vars

\* a socket sends producer frames and, before their store calls have
\* resolved, an `authenticate` frame
InitLeak ==
  InitState /\ horizon = heartbeatTimeout /\ focus = {} /\ observe = ProducerFrames

NextLeak ==
  \/ \E s \in Sockets : Accept(s)
  \/ \E s \in Sockets : HandleConnect(s, "H1", "A")
  \/ \E s \in Sockets, jwt \in Users : HandleMobileAuthenticate(s, jwt)
  \/ \E s \in Sockets, type \in ProducerFrames : ProducerFrame(s, type)
  \/ \E n \in 1..MaxFrames : FanoutFinish(n)

SpecLeak == InitLeak /\ [][NextLeak]_vars

\* --------------------------------------------------- a suspended account
\* the user table holds a suspended account (the status column is set
\* outside this code base); sockets try every way of authenticating
InitBan ==
  /\ InitProcess
  /\ users = [InitUsers EXCEPT !["B"].status = "SUSPENDED"]
  /\ running = TRUE /\ boot = Booted /\ activeAlerts = << >>
  /\ sessions = [s \in Sockets |-> NoSession] /\ hubs = InitHubs
  /\ horizon = heartbeatTimeout /\ focus = {} /\ observe = {}

NextBan ==
  \/ \E s \in Sockets : Accept(s)
  \/ \E s \in Sockets : HandleClose(s)
  \/ \E s \in Sockets, userToken \in Users : HandleConnect(s, "H1", userToken)
  \/ \E s \in Sockets, jwt \in Users : HandleMobileAuthenticate(s, jwt)
  \/ \E s \in Sockets, by \in {"userToken", "userId"}, who \in Users :
       HandleMobileRegister(s, by, who)

SpecBan == InitBan /\ [][NextBan]_vars

\* ------------------------------------- a second timeout after a capped loop
\* producers of a life-or-death user time out one after the other; the user
\* has a web device and never acknowledges
\* the 10 s interval is long against the store calls of a timeout: its
\* callbacks run while no timeout callback is in flight
IntervalTick(i) ==
  /\ \A c \in Sockets : task[c].pc = "idle"
  /\ sendLoopNotification(i)

InitCap ==
  InitState /\ horizon = MaxTime /\ focus = {} /\ observe = {}

NextCap ==
  \/ \E s \in Sockets : Accept(s)
  \/ \E s \in Sockets : HandleConnect(s, "H1", "A")
  \/ \E c \in Sockets : TimerFire(c)
  \/ \E c \in Sockets : TimeoutStep(c)
  \/ Tick(TickMs)
  \/ RegisterDevice("A", "t1", "web")
  \/ \E i \in AlertIds : IntervalTick(i)

SpecCap == InitCap /\ [][NextCap]_vars

\* ------------------------------------- a connect races a token regeneration
\* a connect that presents the token the user had before the regeneration:
\* it validates until the regeneration's user.update has replaced the token
ConnectOldToken(s, userToken) ==
  regen.pc # "returned" /\ ConnectValidate(s, "H1", userToken)

InitRace == InitState /\ horizon = heartbeatTimeout /\ focus = {} /\ observe = {}

NextRace ==
  \/ \E s \in Sockets : Accept(s)
  \/ \E s \in Sockets : HandleClose(s)
  \/ \E s \in Sockets, userToken \in Users : ConnectOldToken(s, userToken)
  \/ \E s \in Sockets : ConnectCreate(s)
  \/ \E userId \in Users : RegenCall(userId)
  \/ RegenDisconnect
  \/ RegenReturn

SpecRace == InitRace /\ [][NextRace]_vars

\* ------------------------------------------- the legacy dead-man service
\* register_device of the legacy router: redisService.setUserDevice
LegacyRegisterDevice(userId) ==
  /\ userId \notin legacy.devices
  /\ legacy' = [legacy EXCEPT !.devices = @ \cup {userId}]
  /\ UNCHANGED << running, now, horizon, wsState, clients, sessions,
                  heartbeatTimers, task, users, hubs, activeAlerts,
                  rateLimits, connects, timeoutPushes, timeoutLogs, lastBeat,
                  armedBy, closedAt, graceReconnect, focus, rateSeen, regen,
                  devices, jobs, loops, boot, fanout, calls, sdk, observe,
                  evt, out >>

\* the legacy handleClose of a producer socket: handleAbruptDisconnect sets
\* the grace timer; monitoring is not stopped
LegacyClose(s) ==
  /\ legacy.clients[s].ws = "open"
  /\ legacy.clients[s].type = "roblox"
  /\ legacy.clients[s].pc = "idle"
  /\ legacy' = [legacy EXCEPT !.clients[s].ws = "closed",
                              !.deadman[s].grace = "pending"]
  /\ UNCHANGED << running, now, horizon, wsState, clients, sessions,
                  heartbeatTimers, task, users, hubs, activeAlerts,
                  rateLimits, connects, timeoutPushes, timeoutLogs, lastBeat,
                  armedBy, closedAt, graceReconnect, focus, rateSeen, regen,
                  devices, jobs, loops, boot, fanout, calls, sdk, observe,
                  evt, out >>

\* the heartbeat timer's callback: handleTimeout deletes the session from
\* monitoredSessions and awaits getActiveConnection
LegacyTimerFire(s) ==
  /\ legacy.deadman[s].timer = "pending"
  /\ legacy' = [legacy EXCEPT !.deadman[s].timer = "none",
                              !.clients[s].monitored = FALSE,
                              !.deadman[s].run["timer"] = "read"]
  /\ UNCHANGED << running, now, horizon, wsState, clients, sessions,
                  heartbeatTimers, task, users, hubs, activeAlerts,
                  rateLimits, connects, timeoutPushes, timeoutLogs, lastBeat,
                  armedBy, closedAt, graceReconnect, focus, rateSeen, regen,
                  devices, jobs, loops, boot, fanout, calls, sdk, observe,
                  evt, out >>

\* the grace timer's callback: return when the session is monitored, else
\* await getActiveConnection
LegacyGraceFire(s) ==
  /\ legacy.deadman[s].grace = "pending"
  /\ legacy' = [legacy EXCEPT !.deadman[s].grace = "none",
                              !.deadman[s].run["grace"] =
                                 IF legacy.clients[s].monitored THEN "idle" ELSE "check"]
  /\ UNCHANGED << running, now, horizon, wsState, clients, sessions,
                  heartbeatTimers, task, users, hubs, activeAlerts,
                  rateLimits, connects, timeoutPushes, timeoutLogs, lastBeat,
                  armedBy, closedAt, graceReconnect, focus, rateSeen, regen,
                  devices, jobs, loops, boot, fanout, calls, sdk, observe,
                  evt, out >>

\* the grace callback's getActiveConnection has resolved: with a connection
\* it calls handleTimeout, which awaits getActiveConnection itself
LegacyGraceRead(s) ==
  /\ legacy.deadman[s].run["grace"] = "check"
  /\ legacy' = [legacy EXCEPT !.deadman[s].run["grace"] =
                                 IF legacy.deadman[s].conn THEN "read" ELSE "idle",
                              !.clients[s].monitored =
                                 IF legacy.deadman[s].conn THEN FALSE ELSE @]
  /\ UNCHANGED << running, now, horizon, wsState, clients, sessions,
                  heartbeatTimers, task, users, hubs, activeAlerts,
                  rateLimits, connects, timeoutPushes, timeoutLogs, lastBeat,
                  armedBy, closedAt, graceReconnect, focus, rateSeen, regen,
                  devices, jobs, loops, boot, fanout, calls, sdk, observe,
                  evt, out >>

\* handleTimeout: getActiveConnection has resolved; no connection: return
LegacyTimeoutRead(s, k) ==
  /\ legacy.deadman[s].run[k] = "read"
  /\ legacy' = [legacy EXCEPT !.deadman[s].run[k] =
                                 IF legacy.deadman[s].conn THEN "device" ELSE "idle"]
  /\ UNCHANGED << running, now, horizon, wsState, clients, sessions,
                  heartbeatTimers, task, users, hubs, activeAlerts,
                  rateLimits, connects, timeoutPushes, timeoutLogs, lastBeat,
                  armedBy, closedAt, graceReconnect, focus, rateSeen, regen,
                  devices, jobs, loops, boot, fanout, calls, sdk, observe,
                  evt, out >>

\* handleTimeout: getUserDevice has resolved; without a push token it logs
\* and returns, else it calls fcmService.sendCriticalAlert
LegacyTimeoutDevice(s, k) ==
  /\ legacy.deadman[s].run[k] = "device"
  /\ legacy' = IF legacy.clients[s].userId \in legacy.devices
               THEN [legacy EXCEPT !.deadman[s].run[k] = "push",
                                   !.deadman[s].alerts = @ + 1]
               ELSE [legacy EXCEPT !.deadman[s].run[k] = "idle"]
  /\ UNCHANGED << running, now, horizon, wsState, clients, sessions,
                  heartbeatTimers, task, users, hubs, activeAlerts,
                  rateLimits, connects, timeoutPushes, timeoutLogs, lastBeat,
                  armedBy, closedAt, graceReconnect, focus, rateSeen, regen,
                  devices, jobs, loops, boot, fanout, calls, sdk, observe,
                  evt, out >>

\* handleTimeout: the push has resolved; deleteActiveConnection
LegacyTimeoutPush(s, k) ==
  /\ legacy.deadman[s].run[k] = "push"
  /\ legacy' = [legacy EXCEPT !.deadman[s].run[k] = "idle",
                              !.deadman[s].conn = FALSE]
  /\ UNCHANGED << running, now, horizon, wsState, clients, sessions,
                  heartbeatTimers, task, users, hubs, activeAlerts,
                  rateLimits, connects, timeoutPushes, timeoutLogs, lastBeat,
                  armedBy, closedAt, graceReconnect, focus, rateSeen, regen,
                  devices, jobs, loops, boot, fanout, calls, sdk, observe,
                  evt, out >>

InitDeadman == InitLegacy

NextDeadman ==
  \/ \E k \in ConnectionKeys, userId \in Users : GenerateKey(k, userId)
  \/ \E s \in Sockets : LegacyAccept(s)
  \/ \E s \in Sockets, k \in ConnectionKeys : LegacyConnect(s, k)
  \/ \E s \in Sockets : LegacyStore(s)
  \/ \E s \in Sockets : LegacyDelete(s)
  \/ \E userId \in Users : LegacyRegisterDevice(userId)
  \/ \E s \in Sockets : LegacyClose(s)
  \/ \E s \in Sockets : LegacyTimerFire(s)
  \/ \E s \in Sockets : LegacyGraceFire(s)
  \/ \E s \in Sockets : LegacyGraceRead(s)
  \/ \E s \in Sockets, k \in Callers : LegacyTimeoutRead(s, k)
  \/ \E s \in Sockets, k \in Callers : LegacyTimeoutDevice(s, k)
  \/ \E s \in Sockets, k \in Callers : LegacyTimeoutPush(s, k)

SpecDeadman == InitDeadman /\ [][NextDeadman]_vars

\* ================================================================= claims
\* the frames only a producer may send, and those only a consumer may send
ProducerOnly ==
  {"connect", "heartbeat", "status", "log", "notify", "alert", "disconnect"}
ConsumerOnly == {"authenticate", "register_device", "command"}

\* ---------------------------------------------------------------------- C1
\* the producers a command for sessionId would match that belong to a user
\* other than the sender's
ForeignTargets(s, sessionId) ==
  {t \in CommandTargets(clients, sessionId) : clients[t].userId # clients[s].userId}

\* C1: a command sent by an authenticated consumer that names the session of
\* another user's producer is answered SESSION_NOT_FOUND, and a command
\* frame reaches a producer only if the sender has the same userId.
C1_CommandStaysWithinUser ==
  (evt.op = "command" /\ requireAuth(clients[evt.sock], "mobile") = "null") =>
    /\ ForeignTargets(evt.sock, evt.sid) # {} => evt.result = "SESSION_NOT_FOUND"
    /\ \A f \in out : f.type = "command" =>
         clients[f.to].userId = clients[evt.sock].userId

\* ---------------------------------------------------------------------- C2
Armed(c) ==
  sessions[c].status = "ACTIVE" /\ heartbeatTimers[c].state = "pending"

TimedOutOrLeft(c) ==
  \/ sessions[c].status = "TIMEOUT"
  \/ sessions[c].disconnectMessage = "Script disconnected"

\* C2: once a producer has connected and its watchdog is armed, its session
\* eventually becomes TIMEOUT unless it sends a disconnect frame, whether
\* its socket stays open or closes abruptly; it never stays ACTIVE forever.
C2_DeadManLiveness == \A c \in Sockets : Armed(c) ~> TimedOutOrLeft(c)

\* a session timed out after its socket had closed abruptly
C2_Witness ==
  \E c \in Sockets : /\ sessions[c].status = "TIMEOUT"
                     /\ heartbeatTimers[c].state = "fired"
                     /\ wsState[c] = "closed"
                     /\ task[c].pc = "idle"

\* ---------------------------------------------------------------------- C3
\* the timer callback of client c starts in this step
Fires(c) == task[c].pc = "idle" /\ task'[c].pc = "find"

\* C3: the timer callback runs only when heartbeatTimeout has passed since
\* the later of the start and the last heartbeat reset; a heartbeat replaces
\* the pending timer by one full-length timer; and a timer nobody resets is
\* run no later than the first instant of the clock past its deadline.
C3_WatchdogTiming ==
  /\ [][\A c \in Sockets :
          Fires(c) => lastBeat[c] >= 0 /\ now - lastBeat[c] >= heartbeatTimeout]_vars
  /\ [](\A c \in Sockets :
          heartbeatTimers[c].state = "pending" =>
            /\ heartbeatTimers[c].deadline = lastBeat[c] + heartbeatTimeout
            /\ now - lastBeat[c] < heartbeatTimeout + TickMs)

\* the callback of a timer that a heartbeat had reset is running, a full
\* timeout after the reset
C3_Witness ==
  \E c \in Sockets : /\ heartbeatTimers[c].state = "fired"
                     /\ task[c].pc = "find"
                     /\ armedBy[c] = "reset"
                     /\ now - lastBeat[c] >= heartbeatTimeout

\* ---------------------------------------------------------------------- C4
\* C4: a session's timeout writes one error log and sends one critical push;
\* no interleaving of late heartbeats, frames, closes and timer callbacks
\* produces a second one for the same session (a socket that connected
\* once has one session, activated once).
C4_OneShotTimeout ==
  \A c \in Sockets :
    connects[c] = 1 => timeoutPushes[c] <= 1 /\ timeoutLogs[c] <= 1

\* ---------------------------------------------------------------------- C5
\* C5: at most one unacknowledged ActiveAlert exists per user, also when two
\* sessions of a life-or-death user time out concurrently.
C5_OneAlertPerUser ==
  \A u \in Users : Cardinality(UnacknowledgedAlerts(activeAlerts, u)) <= 1

\* ---------------------------------------------------------------------- C6
\* C6: a session whose status is DISCONNECTED or TIMEOUT, however it got
\* there, has no entry in the watchdog map under its client id.
C6_NoTimerOnceEnded ==
  \A c \in Sockets :
    sessions[c].status \in {"DISCONNECTED", "TIMEOUT"} =>
      heartbeatTimers[c].state = "none"

\* ---------------------------------------------------------------------- C7
\* C7: every ACTIVE session has a pending watchdog timer under its client id
\* (the map holds one entry per client id, so never two); the instants in
\* which the timer's own callback is running are left out.
C7_ActiveHasTimer ==
  \A c \in Sockets :
    (sessions[c].status = "ACTIVE" /\ task[c].pc = "idle") =>
      heartbeatTimers[c].state = "pending"

\* ---------------------------------------------------------------------- C8
\* C8: when a live producer's socket closes abruptly and the same script
\* reconnects within reconnectGracePeriod, no timeout is processed for the
\* prior session: no handleTimeout call, no critical push, never TIMEOUT.
C8_GraceReconnect ==
  \A c \in Sockets :
    graceReconnect[c] =>
      /\ task[c].pc = "idle"
      /\ sessions[c].status # "TIMEOUT"

\* ---------------------------------------------------------------------- C9
RatedKeys == Sockets \X RatedClasses

\* a rated frame of an authenticated producer was handled in this step
Rated(k) ==
  /\ evt'.op = k[2]
  /\ evt'.sock = k[1]
  /\ requireAuth(clients[k[1]], "roblox") = "null"

WindowOpen(k) ==
  /\ rateSeen[k].start >= 0
  /\ now <= rateSeen[k].start + RATE_LIMITS[k[2]].windowMs

C9_Step ==
  \A k \in RatedKeys :
    Rated(k) =>
      \* turned away only when the open window is full, and then nothing
      \* but the error frame leaves the server and no session changes
      /\ evt'.result = "RATE_LIMITED" =>
           /\ WindowOpen(k)
           /\ rateSeen[k].n = RATE_LIMITS[k[2]].max
           /\ out' = sendError(k[1], "RATE_LIMITED")
           /\ sessions' = sessions
      \* accepted whenever no window is open or the open one has room
      /\ (~WindowOpen(k) \/ rateSeen[k].n < RATE_LIMITS[k[2]].max) =>
           evt'.result # "RATE_LIMITED"
      \* the first frame after the window opens a new one
      /\ ~WindowOpen(k) => rateSeen'[k] = [start |-> now, n |-> 1]
      \* the other keys are left alone
      /\ \A j \in RatedKeys \ {k} :
           rateLimits'[j] = rateLimits[j] /\ rateSeen'[j] = rateSeen[j]

WrongRole ==
  \/ /\ evt'.op \in ProducerOnly
     /\ clients[evt'.sock].authenticated
     /\ clients[evt'.sock].type = "mobile"
  \/ /\ evt'.op \in ConsumerOnly
     /\ clients[evt'.sock].authenticated
     /\ clients[evt'.sock].type = "roblox"

\* C10: a producer-only frame on a consumer socket, and a consumer-only
\* frame on a producer socket, is answered INVALID_MESSAGE and changes
\* neither the socket's role, user and session id, nor the session record,
\* the watchdog timer or the rate-limit counters.
C10_RoleIsolation ==
  [][ (evt'.op \in FrameTypes /\ WrongRole) =>
        /\ out' = sendError(evt'.sock, "INVALID_MESSAGE")
        /\ UNCHANGED << clients, sessions, heartbeatTimers, rateLimits >> ]_vars

\* --------------------------------------------------------------------- C11
AuthFrames == {"connect", "authenticate", "register_device"}

\* C11: every failed authentication attempt (connect, authenticate,
\* register_device) sends its error frame and then closes the socket, and
\* the attempt does not mark the socket authenticated.
C11_FailedAuthCloses ==
  [][ (evt'.op \in AuthFrames /\ evt'.result # "null") =>
        /\ out' = sendError(evt'.sock, evt'.result)
        /\ wsState'[evt'.sock] \in {"closing", "closed"}
        /\ clients'[evt'.sock].authenticated => clients[evt'.sock].authenticated
    ]_vars

\* --------------------------------------------------------------------- C12
\* the hub a key resolves to is not approved
NotApproved(hubKey) == hubKey \in Hubs /\ hubs[hubKey].status # "APPROVED"

C13_RevokedOnReturn ==
  [][ (regen.pc = "update" /\ regen'.pc = "returned") =>
        \A c \in regen.was :
          /\ sessions'[c].status = "DISCONNECTED"
          /\ sessions'[c].disconnectReason = "TOKEN_REVOKED" ]_vars

\* --------------------------------------------------------------------- C18
LiveDevices(dv) == {d \in DeviceIds : dv[d].state = "live"}

C19_FailedIsInactive ==
  \A d \in DeviceIds : devices[d].failedAttempts >= 3 => ~devices[d].isActive

\* a device deactivated by one failure write while another failure write,
\* computed from an older read, is still in flight
C19_Witness ==
  \E d \in DeviceIds :
    /\ devices[d].state = "live"
    /\ devices[d].failedAttempts >= 3
    /\ ~devices[d].isActive
    /\ \E j \in Jobs : jobs[j].pc = "write" /\ jobs[j].dev = d

\* --------------------------------------------------------------------- C14
\* C14: once an alert is acknowledged its interval is out of activeLoops
\* and no loop push is sent for it any more, not even by an interval tick
\* that had reloaded the alert before the acknowledgement.
C14_NoPushAfterAck ==
  /\ [](\A i \in DOMAIN activeAlerts :
          activeAlerts[i].acknowledged => ~activeAlerts[i].loop)
  /\ [][ \A i \in DOMAIN activeAlerts, a \in TickSlots :
           (loops[i][a].pc = "send" /\ loops'[i][a].pc = "idle") =>
             ~activeAlerts[i].acknowledged ]_vars

\* --------------------------------------------------------------------- C15
MinuteOfDay(t) == t[1] * 60 + t[2]

InWindow(s, e, m) ==
  \/ s <= e /\ s <= m /\ m < e
  \/ s > e /\ (m >= s \/ m < e)

\* C15: with quiet hours enabled and both bounds set, isQuietHours is true
\* exactly when s <= m < e (s <= e) or m >= s or m < e (s > e): true at
\* 04:30 and false at 09:00 for 23:00-07:00, never true when s = e.
C15_QuietWindow ==
  (evt.op = "isQuietHours" /\ users[evt.arg].quietHoursEnabled) =>
    LET s == MinuteOfDay(users[evt.arg].quietHoursStart)
        e == MinuteOfDay(users[evt.arg].quietHoursEnd)
    IN /\ (evt.result = "true") <=> InWindow(s, e, evt.sid)
       /\ s = e => evt.result = "false"
       /\ (s = 1380 /\ e = 420 /\ evt.sid = 270) => evt.result = "true"
       /\ (s = 1380 /\ e = 420 /\ evt.sid = 540) => evt.result = "false"

\* the overnight window 23:00-07:00 asked at 04:30
C15_Witness ==
  /\ evt.op = "isQuietHours"
  /\ users[evt.arg].quietHoursEnabled
  /\ users[evt.arg].quietHoursStart = <<23, 0>>
  /\ users[evt.arg].quietHoursEnd = <<7, 0>>
  /\ evt.sid = 270
  /\ evt.result = "true"

\* --------------------------------------------------------------------- C16
\* C16: a timeout processed during the user's quiet hours sends no push and
\* starts no alert loop (alertSent = false), but still moves the session to
\* TIMEOUT and still writes the error-level SessionLog of the timeout.
C16_QuietTimeoutLogged ==
  [][ \A c \in Sockets :
        (task[c].pc = "quiet" /\ task'[c].pc = "close") =>
          /\ sessions'[c].status = "TIMEOUT"
          /\ ~sessions'[c].alertSent
          /\ timeoutPushes' = timeoutPushes
          /\ activeAlerts' = activeAlerts
          /\ timeoutLogs'[c] = timeoutLogs[c] + 1 ]_vars

\* --------------------------------------------------------------------- C17
Cleaned(c) ==
  /\ sessions[c].status = "DISCONNECTED"
  /\ sessions[c].disconnectReason = "SERVER_SHUTDOWN"
  /\ sessions[c].disconnectMessage = "Server restarted"

\* C17: at boot every session persisted as active is set to disconnected
\* (server-shutdown, "Server restarted") before the router is initialized
\* and before any socket is accepted; the cleanup changes no hub counter
\* and no session that was not active.
C17_CleanupBeforeAccept ==
  /\ [](boot.pc \in {"initialized", "listening"} => \A c \in boot.stale : Cleaned(c))
  /\ []((\E s \in Sockets : wsState[s] # "unused") =>
          boot.pc = "listening" /\ \A c \in boot.stale : Cleaned(c))
  /\ [][ boot'.pc # boot.pc /\ boot'.pc = "cleaned" =>
           /\ hubs' = hubs
           /\ \A c \in Sockets : sessions[c].status # "ACTIVE" =>
                sessions'[c] = sessions[c] ]_vars

\* a socket of the new run is open; the previous run's active session was
\* cleaned and its timed-out session is as it was
C17_Witness ==
  /\ boot.pc = "listening"
  /\ \E s \in Sockets : wsState[s] = "open"
  /\ 1 \in boot.stale /\ Cleaned(1)
  /\ sessions[2] = StaleRow(2, "TIMEOUT")

\* --------------------------------------------------------------------- C20
\* C20: the fan-out events of one producer's status, log, notify, alert and
\* disconnect frames are written to each consumer socket of the user in the
\* order in which the producer sent the frames.
C20_FanoutInSendOrder ==
  \A c \in Sockets :
    \A i, j \in 1..Len(fanout.inbox[c]) :
      i < j => fanout.inbox[c][i] < fanout.inbox[c][j]

\* --------------------------------------------------------------------- C21
Ended(c) == sessions[c].status \in {"DISCONNECTED", "TIMEOUT"}

\* C21: once a session's persisted status is DISCONNECTED or TIMEOUT, no
\* disconnect operation and no timeout changes its status, disconnect reason
\* or disconnect message again (only a new connect re-activates the row).
C21_EndedIsFinal ==
  [][ \A c \in Sockets :
        (Ended(c) /\ sessions'[c].status # "ACTIVE") =>
          /\ sessions'[c].status = sessions[c].status
          /\ sessions'[c].disconnectReason = sessions[c].disconnectReason
          /\ sessions'[c].disconnectMessage = sessions[c].disconnectMessage ]_vars

\* --------------------------------------------------------------------- C22
\* C22: handleTimeout invoked for a session whose status is not ACTIVE is a
\* no-op: having loaded such a session it returns, without going on to the
\* SessionLog, the push fan-out, the alert loop or a write of the session.
C22_TimeoutNoopWhenEnded ==
  [][ \A c \in Sockets :
        (task[c].pc = "find" /\ task'[c].pc # "find"
         /\ sessions[c].status # "ACTIVE") =>
          /\ task'[c].pc = "idle"
          /\ sessions' = sessions
          /\ timeoutLogs' = timeoutLogs
          /\ timeoutPushes' = timeoutPushes ]_vars

\* --------------------------------------------------------------------- C23
\* C23: once restoreActiveLoops has completed at boot, every alert that was
\* unacknowledged and older than ten minutes is acknowledged and has no
\* interval, whatever its notificationsSent.
C23_OldAlertsAcknowledged ==
  boot.pc \in {"services", "initialized", "listening"} =>
    \A i \in boot.old : activeAlerts[i].acknowledged /\ ~activeAlerts[i].loop

\* --------------------------------------------------------------------- C24
\* C24: when suspendHub(H) returns, hub H is SUSPENDED and no session of
\* hub H is ACTIVE, whatever connects with H's key were in progress.
C24_SuspendedHubHasNoActive ==
  [][ (calls.suspend.pc = "update" /\ calls'.suspend.pc = "returned") =>
        /\ hubs'[calls.suspend.hubId].status = "SUSPENDED"
        /\ \A c \in Sockets :
             sessions'[c].hubId = calls.suspend.hubId => sessions'[c].status # "ACTIVE" ]_vars

\* --------------------------------------------------------------------- C25
\* C25: once shutdown has completed no socket is open or accepted, no
\* session is left ACTIVE (a live producer's session is DISCONNECTED with
\* reason SERVER_SHUTDOWN) and no watchdog timer is scheduled, also for
\* sockets that connect or authenticate while shutdown awaits the store.
C25_ShutdownIsComplete ==
  calls.shutdown.pc = "done" =>
    /\ ~running
    /\ \A c \in Sockets :
         /\ wsState[c] # "open"
         /\ sessions[c].status # "ACTIVE"
         /\ heartbeatTimers[c].state # "pending"

\* --------------------------------------------------------------------- C26
\* C26: a connection key authenticates at most one producer socket; every
\* other connect with the key, also one handled concurrently on another
\* socket, is turned away.
C26_KeyIsSingleUse ==
  \A k \in ConnectionKeys :
    Cardinality({s \in Sockets : legacy.clients[s].type = "roblox"
                                 /\ legacy.clients[s].key = k}) <= 1

\* --------------------------------------------------------------------- C27
\* C27: the SDK's offline queue never holds more than 50 messages and never
\* holds a heartbeat; the messages it holds are the latest ones queued.
C27_QueueAtMostFifty ==
  /\ Len(sdk.messageQueue) <= 50
  /\ \A i \in 1..Len(sdk.messageQueue) :
       /\ sdk.messageQueue[i].type # "heartbeat"
       /\ sdk.messageQueue[i].n = sdk.appended - Len(sdk.messageQueue) + i

\* --------------------------------------------------------------------- C28
\* C28: the SDK makes at most maxReconnectAttempts consecutive attempts, the
\* counter returns to 0 on 'authenticated', and after Disconnect() no
\* reconnect is scheduled and no connection is opened.
C28_ReconnectBounded ==
  /\ [](sdk.reconnectAttempts <= sdk.maxReconnectAttempts)
  /\ [][ (~sdk.authenticated /\ sdk'.authenticated) => sdk'.reconnectAttempts = 0 ]_vars
  /\ [][ sdk.stopped => (sdk'.timers <= sdk.timers /\ (sdk'.ws => sdk.ws)) ]_vars

\* --------------------------------------------------------------------- C29
\* C29: whenever handleTimeout has loaded the session and quiet hours do not
\* apply, the push fan-out is invoked, and it is invoked before the session
\* is written: a store failure in the log or in the final update does not
\* prevent the alert.
C29_PushBeforeWrite ==
  /\ [][ \A c \in Sockets :
           (task[c].pc = "alert" /\ task'[c].pc # "alert") =>
             timeoutPushes'[c] = timeoutPushes[c] + 1 ]_vars
  /\ [][ \A c \in Sockets :
           (task[c].pc # "quiet" /\ sessions'[c].status = "TIMEOUT"
            /\ sessions[c].status # "TIMEOUT") => timeoutPushes[c] >= 1 ]_vars

\* the push went out although neither the log nor the session could be written
C29_Witness ==
  \E c \in Sockets :
    /\ timeoutPushes[c] = 1
    /\ timeoutLogs[c] = 0
    /\ task[c].pc = "idle"
    /\ sessions[c].status = "ACTIVE"
    /\ heartbeatTimers[c].state = "fired"

\* --------------------------------------------------------------------- C30
\* C30: notificationsSent is 1 at creation, never decreases and never exceeds
\* maxNotifications; each sending tick raises the persisted counter by
\* exactly one and labels its push with the value it persisted, so no two
\* pushes of an alert carry the same k, also when ticks overlap.
C30_CounterCountsPushes ==
  /\ [](\A i \in DOMAIN activeAlerts :
          activeAlerts[i].notificationsSent \in 1..MaxNotifications)
  /\ [][ \A i \in DOMAIN activeAlerts' :
           IF i \in DOMAIN activeAlerts
           THEN /\ activeAlerts'[i].notificationsSent >= activeAlerts[i].notificationsSent
                /\ \A a \in TickSlots :
                     (loops[i][a].pc = "update" /\ loops'[i][a].pc = "send") =>
                       /\ activeAlerts'[i].notificationsSent
                            = activeAlerts[i].notificationsSent + 1
                       /\ loops'[i][a].read + 1 = activeAlerts'[i].notificationsSent
           ELSE activeAlerts'[i].notificationsSent = 1 ]_vars

\* --------------------------------------------------------------------- C31
\* C31: under fair ticking every installed alert-loop interval is eventually
\* cancelled, also when the user never acknowledges.
C31_LoopEventuallyCancelled ==
  \A i \in AlertIds :
    [](((i \in DOMAIN activeAlerts) /\ activeAlerts[i].loop)
         => <>((i \in DOMAIN activeAlerts) /\ ~activeAlerts[i].loop))

\* --------------------------------------------------------------------- C32
\* C32: acknowledge succeeds only for an existing, unacknowledged alert of
\* the calling user; for a missing alert or another user's alert it fails
\* and changes neither the alert records nor the intervals; a repeated
\* acknowledge fails with ALREADY_ACKNOWLEDGED and changes nothing.
C32_AcknowledgeGuards ==
  [][ evt'.op = "acknowledge" =>
        LET i == evt'.sid
            mine == (i \in DOMAIN activeAlerts) /\ activeAlerts[i].userId = evt'.arg
        IN /\ evt'.result = "ok" => (mine /\ ~activeAlerts[i].acknowledged)
           /\ ~mine => (evt'.result # "ok" /\ activeAlerts' = activeAlerts)
           /\ (mine /\ activeAlerts[i].acknowledged) =>
                (evt'.result = "ALREADY_ACKNOWLEDGED" /\ activeAlerts' = activeAlerts)
    ]_vars

\* --------------------------------------------------------------------- C33
\* C33: on a socket that has not authenticated a heartbeat is ignored (no
\* pong, no timer started or reset, no store write) and a status, log,
\* notify, alert, disconnect or command frame is answered with
\* NOT_AUTHENTICATED only: no fan-out, no push, no store write, no
\* rate-limit counter change.
GuardedFrames == {"status", "log", "notify", "alert", "disconnect", "command"}

C34_HeartbeatSurvivesStore ==
  [][ (evt'.op = "heartbeat" /\ clients[evt'.sock].authenticated
        /\ clients[evt'.sock].type = "roblox") =>
        /\ out' = send(evt'.sock, "pong", "null")
        /\ heartbeatTimers[evt'.sock].state # "none" =>
             heartbeatTimers'[evt'.sock].deadline = now + heartbeatTimeout
        /\ evt'.result # "ok" => sessions' = sessions
    ]_vars

\* --------------------------------------------------------------------- C35
\* C35: a fan-out frame caused by a producer of user U (the user of the
\* producer's session) is written to exactly the open sockets that are
\* authenticated consumers with userId = U: never
\* to another user's consumer, a producer socket or an unauthenticated
\* socket, and a socket that is not open is skipped without changing what
\* the other recipients get.
FanoutOf ==
  [connect |-> "session_started", status |-> "status_update", log |-> "log",
   notify |-> "notification", alert |-> "critical_alert",
   disconnect |-> "session_ended", close |-> "session_connection_lost"]

FanoutTypes == {FanoutOf[op] : op \in DOMAIN FanoutOf}

ConsumersOf(cl, U) ==
  {t \in Sockets : /\ cl[t].type = "mobile" /\ cl[t].authenticated
                   /\ cl[t].userId = U /\ wsState[t] = "open"}

C35_FanoutOnlyToOwnConsumers ==
  [][ evt'.op \in DOMAIN FanoutOf =>
        LET s == evt'.sock
            U == IF evt'.op = "connect" THEN evt'.arg ELSE sessions[s].userId
            cl == IF evt'.op = "connect" THEN clients' ELSE clients
            sent == {f \in out' : f.to \in Sockets /\ f.type \in FanoutTypes}
            all == {Frame(t, FanoutOf[evt'.op], "null") : t \in ConsumersOf(cl, U)}
        IN /\ sent \subseteq all
           /\ sent # {} => sent = all
    ]_vars

\* --------------------------------------------------------------------- C36
\* the SessionLog rows written for a client's session: logService.createLog
\* is called by handleTimeout only
SessionLogRows(logs, c) == logs[c]

\* C36: every log frame accepted from an authenticated producer (not
\* rate-limited) persists exactly one SessionLog row for the producer's
\* session, besides the consumer fan-out.
C36_LogFramePersisted ==
  [][ \A s \in Sockets :
        (evt'.op = "log" /\ evt'.sock = s /\ evt'.result = "null") =>
          /\ SessionLogRows(timeoutLogs', s) = SessionLogRows(timeoutLogs, s) + 1
          /\ out' = notifyMobileApps(clients, clients[s].userId, "log")
    ]_vars

\* --------------------------------------------------------------------- C37
\* C37: no socket is marked authenticated, as producer or as consumer, for
\* a user whose status is suspended, whichever frame authenticated it.
C37_NoSuspendedUserAuthenticated ==
  \A s \in Sockets :
    clients[s].authenticated => users[clients[s].userId].status # "SUSPENDED"

\* --------------------------------------------------------------------- C38
\* C38: when handleTimeout returns from a timeout outside quiet hours of a
\* user with lifeOrDeathMode enabled, the user has an unacknowledged
\* ActiveAlert whose interval is installed, also when an earlier alert of
\* the user stopped at the maxNotifications cap without being acknowledged.
C38_TimeoutLeavesRunningLoop ==
  [][ \A c \in Sockets :
        (task[c].pc = "update" /\ task'[c].pc = "close" /\ task[c].lod) =>
          \E i \in DOMAIN activeAlerts' :
            /\ activeAlerts'[i].userId = task[c].userId
            /\ ~activeAlerts'[i].acknowledged
            /\ activeAlerts'[i].loop
    ]_vars

\* --------------------------------------------------------------------- C39
\* C39: after regenerateUserToken(U) has returned, no session of U that was
\* opened with the old token is active, also when the connect validated the
\* old token before the regeneration and created its session during it.
\* (Every connect of the run presents the old token.)
C39_NoOldTokenSessionAfterRegen ==
  regen.pc = "returned" =>
    \A c \in Sockets :
      sessions[c].userId = regen.userId => sessions[c].status # "ACTIVE"

\* --------------------------------------------------------------------- C40
\* C40: in the legacy dead-man service the heartbeat timer's callback and
\* the abrupt-disconnect grace check together send the timeout critical
\* alert of one session at most once.
C40_LegacyAlertOnce ==
  \A s \in Sockets : legacy.deadman[s].alerts <= 1

====
